---- MODULE Spec2Model ----
(***************************************************************************)
(* VoiceDraft: the speech-to-text benchmark runner                          *)
(* (scripts/benchmark-stt.mjs, kept here as src/unnamed/part_001).          *)
(*                                                                         *)
(* Numbers.  JavaScript numbers are modelled as exact rationals            *)
(* [def, n, d]: def = FALSE is "not a finite number" (null, undefined,     *)
(* Infinity, a non-number), otherwise the value is n/d in lowest terms     *)
(* with d > 0.  Floating-point rounding is not modelled.                   *)
(*                                                                         *)
(* Text.  A string of transcript text is a sequence of characters, each a  *)
(* one-character token; identifiers, paths and field names are atomic.     *)
(***************************************************************************)
EXTENDS Integers, Sequences, FiniteSets, TLC

VARIABLES
    argv,           \* the command line: [maxSamples, weights] as given
    options,        \* main's options: [maxSamples, weights]
    datasetFile,    \* the JSONL file: a sequence of lines
    providersFile,  \* the providers JSON file: [isArray, items]
    pc,             \* position of main(): see the actions
    dataset,        \* readJsonLines' result
    providers,      \* the enabled providers (main, line 717)
    samples,        \* the capped sample list (main, line 723)
    pi,             \* index of the provider the outer loop is at
    si,             \* index of the sample the inner loop is at
    sampleResults,  \* the result collection (main, line 734)
    calls,          \* log of transcribeWithProvider invocations: <<pi, si>>
    requests,       \* log of HTTP requests issued: <<pi, si>>
    summary,        \* summarizeProviderResults' result
    report,         \* what was written to the output directory
    failure,        \* the error main() rejected with, "" while none
    io,             \* per call of transcribeWithProvider: [env, spawned], what the
                    \* call met outside the program and the processes it spawned
    call,           \* an adapter call followed step by step: its timer, its
                    \* clock, its process or request, and how it settled
    hook,           \* the state of a mounted useVoiceDraft hook and of its
                    \* page: React state, refs, closures, timers, the clock
    unit            \* a helper function called on its own: [fn, args, returned, done]

vars == <<argv, options, datasetFile, providersFile, pc, dataset, providers, samples,
          pi, si, sampleResults, calls, requests, summary, report, failure, io, call, hook, unit>>

-----------------------------------------------------------------------------
(* Numbers *)

Null == [def |-> FALSE, n |-> 0, d |-> 1]

Abs(x) == IF x < 0 THEN -x ELSE x

RECURSIVE GCD(_, _)
GCD(a, b) == IF b = 0 THEN a ELSE GCD(b, a % b)

Rat(n, d) ==
    LET g == GCD(Abs(n), Abs(d))
        s == IF d < 0 THEN -1 ELSE 1
    IN  [def |-> TRUE, n |-> (s * n) \div g, d |-> (s * d) \div g]

Num(n) == [def |-> TRUE, n |-> n, d |-> 1]

\* Number.isFinite(x)
IsFinite(x) == x.def

\* the values that are not finite numbers: null is Null, undefined and NaN are
\* NaN once they meet arithmetic, Infinity is an infinity of either sign
NaN == [def |-> FALSE, n |-> 0, d |-> 0]
Infinity == [def |-> FALSE, n |-> 1, d |-> 0]

\* the number an operand of + or / is converted to: null becomes 0
ToNumber(x) == IF x = Null THEN Num(0) ELSE x

\* a + b
RAdd(a, b) ==
    LET x == ToNumber(a)
        y == ToNumber(b)
    IN  IF x.def /\ y.def THEN Rat(x.n * y.d + y.n * x.d, x.d * y.d)
        ELSE IF x = NaN \/ y = NaN THEN NaN
        ELSE Infinity
RSub(a, b) == Rat(a.n * b.d - b.n * a.d, a.d * b.d)
RMul(a, b) == Rat(a.n * b.n, a.d * b.d)
\* a / b, for b a finite number other than 0
RDiv(a, b) ==
    LET x == ToNumber(a)
    IN  IF x.def THEN Rat(x.n * b.d, x.d * b.n) ELSE x
RLess(a, b) == a.n * b.d < b.n * a.d
RLeq(a, b) == a.n * b.d <= b.n * a.d
RMin(a, b) == IF RLess(b, a) THEN b ELSE a
RMax(a, b) == IF RLess(a, b) THEN b ELSE a

\* clamp(value, min, max) == Math.max(min, Math.min(max, value))
clamp(value, min, max) == RMax(min, RMin(max, value))

RECURSIVE RSum(_)
RSum(values) ==
    IF Len(values) = 0 THEN Num(0) ELSE RAdd(Head(values), RSum(Tail(values)))

\* Math.min(...values): Infinity, that is not finite, for no values
RECURSIVE MathMin(_)
MathMin(values) ==
    IF Len(values) = 0 THEN Null
    ELSE IF Len(values) = 1 THEN Head(values)
    ELSE RMin(Head(values), MathMin(Tail(values)))

\* values.filter(pred) is SelectSeq; values.map(F) is MapSeq
MapSeq(s, F(_)) == [k \in 1..Len(s) |-> F(s[k])]

-----------------------------------------------------------------------------
(* Statistics *)

mean(values) ==
    IF Len(values) = 0 THEN Null
    ELSE RDiv(RSum(values), Num(Len(values)))

\* [...values].sort((a, b) => a - b)
RECURSIVE InsertAscending(_, _)
InsertAscending(sorted, x) ==
    IF Len(sorted) = 0 THEN <<x>>
    ELSE IF RLess(x, Head(sorted)) THEN <<x>> \o sorted
    ELSE <<Head(sorted)>> \o InsertAscending(Tail(sorted), x)

RECURSIVE SortAscending(_)
SortAscending(values) ==
    IF Len(values) = 0 THEN <<>>
    ELSE InsertAscending(SortAscending(Tail(values)), Head(values))

\* a percentile that takes the lower bracketing rank and does not interpolate
percentileLowerRank(values, p) ==
    IF Len(values) = 0 THEN Null
    ELSE
        LET sorted == SortAscending(values)
            index == Rat(p * (Len(sorted) - 1), 100)
        IN  sorted[(index.n \div index.d) + 1]

percentile(values, p) ==
    IF Len(values) = 0 THEN Null
    ELSE
        LET sorted == SortAscending(values)
            index == Rat(p * (Len(sorted) - 1), 100)
            lower == index.n \div index.d
            upper == IF index.n % index.d = 0 THEN lower ELSE lower + 1
            ratio == RSub(index, Num(lower))
        IN  IF lower = upper THEN sorted[lower + 1]
            ELSE RAdd(sorted[lower + 1],
                      RMul(RSub(sorted[upper + 1], sorted[lower + 1]), ratio))

-----------------------------------------------------------------------------
(* Text normalisation and error rates *)

UpperCase == {"A", "B", "ACIRC"}
LowerCase == {"a", "b", "c", "d", "e", "x", "acirc"}
Digits == {"1"}
WhiteSpace == {" ", "\t"}
\* the character class of line 130 as the source file has it
ApostropheClass == {"'", "acirc", "euro", "tm"}
Punctuation == {".", ","}

toLowerCase(c) ==
    CASE c = "A" -> "a"
      [] c = "B" -> "b"
      [] c = "ACIRC" -> "acirc"
      [] OTHER -> c

\* \p{L}, \p{N} or \s
IsWordChar(c) == c \in LowerCase \cup UpperCase \cup Digits \cup WhiteSpace

\* .replace(/\s+/g, " "): every run of whitespace becomes one space
RECURSIVE CollapseWhiteSpace(_)
CollapseWhiteSpace(s) ==
    IF Len(s) = 0 THEN <<>>
    ELSE IF Head(s) \in WhiteSpace
         THEN IF Len(s) > 1 /\ s[2] \in WhiteSpace
              THEN CollapseWhiteSpace(Tail(s))
              ELSE <<" ">> \o CollapseWhiteSpace(Tail(s))
         ELSE <<Head(s)>> \o CollapseWhiteSpace(Tail(s))

RECURSIVE TrimStart(_)
TrimStart(s) ==
    IF Len(s) > 0 /\ Head(s) \in WhiteSpace THEN TrimStart(Tail(s)) ELSE s

RECURSIVE TrimEnd(_)
TrimEnd(s) ==
    IF Len(s) > 0 /\ s[Len(s)] \in WhiteSpace
    THEN TrimEnd(SubSeq(s, 1, Len(s) - 1)) ELSE s

Trim(s) == TrimEnd(TrimStart(s))

normalizeTranscript(input) ==
    LET lowered == MapSeq(input, toLowerCase)
        NotApostrophe(c) == c \notin ApostropheClass
        stripped == SelectSeq(lowered, NotApostrophe)
        Spaced(c) == IF IsWordChar(c) THEN c ELSE " "
        spaced == MapSeq(stripped, Spaced)
    IN  Trim(CollapseWhiteSpace(spaced))

\* normalized.split(" "): the words are sequences of characters
RECURSIVE SplitOnSpace(_, _)
SplitOnSpace(s, word) ==
    IF Len(s) = 0 THEN <<word>>
    ELSE IF Head(s) = " " THEN <<word>> \o SplitOnSpace(Tail(s), <<>>)
    ELSE SplitOnSpace(Tail(s), Append(word, Head(s)))

\* a word tokenizer that splits the text as it is given
tokenizeWordsRaw(input) ==
    IF Len(input) > 0 THEN SplitOnSpace(input, <<>>) ELSE <<>>

tokenizeWords(input) ==
    LET normalized == normalizeTranscript(input)
    IN  IF Len(normalized) > 0 THEN SplitOnSpace(normalized, <<>>) ELSE <<>>

tokenizeChars(input) ==
    LET NotSpace(c) == c \notin WhiteSpace
    IN  SelectSeq(normalizeTranscript(input), NotSpace)

\* a minimum over deletion and insertion only
Min3WithoutSubstitution(a, b, c) == IF a <= b THEN a ELSE b

Min3(a, b, c) ==
    IF a <= b /\ a <= c THEN a ELSE IF b <= c THEN b ELSE c

\* one pass of the inner loop (lines 163-169): currentRow[1..j] from previousRow
RECURSIVE FillRow(_, _, _, _, _)
FillRow(source, target, i, previousRow, currentRow) ==
    LET j == Len(currentRow)    \* currentRow holds indexes 0..j-1
    IN  IF j > Len(target) THEN currentRow
        ELSE
            LET substitutionCost == IF source[i] = target[j] THEN 0 ELSE 1
                deletion == previousRow[j + 1] + 1
                insertion == currentRow[j] + 1
                substitution == previousRow[j] + substitutionCost
            IN  FillRow(source, target, i, previousRow,
                        Append(currentRow, Min3(deletion, insertion, substitution)))

RECURSIVE LevRows(_, _, _, _)
LevRows(source, target, i, previousRow) ==
    IF i > Len(source) THEN previousRow
    ELSE LevRows(source, target, i + 1,
                 FillRow(source, target, i, previousRow, <<i>>))

\* a distance whose first early return gives the length of the empty source
levenshteinDistanceOfEmptySource(source, target) ==
    IF Len(source) = 0 THEN Len(source)
    ELSE IF Len(target) = 0 THEN Len(source)
    ELSE LevRows(source, target, 1, [j \in 1..(Len(target) + 1) |-> j - 1])[Len(target) + 1]

levenshteinDistance(source, target) ==
    IF Len(source) = 0 THEN Len(target)
    ELSE IF Len(target) = 0 THEN Len(source)
    ELSE LevRows(source, target, 1, [j \in 1..(Len(target) + 1) |-> j - 1])[Len(target) + 1]

\* a word error rate that is capped at 1
computeWordErrorRateClamped(reference, hypothesis) ==
    LET refWords == tokenizeWords(reference)
        hypWords == tokenizeWords(hypothesis)
    IN  IF Len(refWords) = 0
        THEN (IF Len(hypWords) = 0 THEN Num(0) ELSE Num(1))
        ELSE RMin(Num(1), Rat(levenshteinDistance(refWords, hypWords), Len(refWords)))

computeWordErrorRate(reference, hypothesis) ==
    LET refWords == tokenizeWords(reference)
        hypWords == tokenizeWords(hypothesis)
    IN  IF Len(refWords) = 0
        THEN (IF Len(hypWords) = 0 THEN Num(0) ELSE Num(1))
        ELSE Rat(levenshteinDistance(refWords, hypWords), Len(refWords))

computeCharacterErrorRate(reference, hypothesis) ==
    LET refChars == tokenizeChars(reference)
        hypChars == tokenizeChars(hypothesis)
    IN  IF Len(refChars) = 0
        THEN (IF Len(hypChars) = 0 THEN Num(0) ELSE Num(1))
        ELSE Rat(levenshteinDistance(refChars, hypChars), Len(refChars))

-----------------------------------------------------------------------------
(* JavaScript values of the records read from the two input files.  A value *)
(* is [t, v]: t its type, v its payload (atomic for identifiers, a sequence *)
(* of characters for text).                                                *)

StrId(s) == [t |-> "string", v |-> s]
UndefId == [t |-> "undefined", v |-> ""]
NumId == [t |-> "number", v |-> "7"]
Text(cs) == [t |-> "string", v |-> cs]
UndefText == [t |-> "undefined", v |-> <<>>]
NullText == [t |-> "null", v |-> <<>>]
EmptyObject == [k \in {} |-> UndefText]

\* a dataset record; isNull is the JSON value null
MkSample(id, reference, audioFile, hypotheses) ==
    [isNull |-> FALSE, id |-> id, reference |-> reference,
     audioFile |-> audioFile, hypotheses |-> hypotheses, tags |-> <<>>]

NullSample == [MkSample(UndefId, UndefText, UndefId, EmptyObject) EXCEPT !.isNull = TRUE]

\* a provider record; enabled is "absent", "true", "false" or "zero" (the number 0)
MkProvider(id, type, enabled, field, command, cost, effort) ==
    [isNull |-> FALSE, id |-> id, type |-> type, enabled |-> enabled,
     field |-> field, command |-> command,
     costPerHourUsd |-> cost, integrationEffort |-> effort]

NullProvider ==
    [MkProvider(UndefId, UndefId, "absent", UndefId, UndefId, Null, Null)
        EXCEPT !.isNull = TRUE]

-----------------------------------------------------------------------------
(* Command line *)

DefaultAccuracyWeight == 40
DefaultLatencyWeight == 25
DefaultCostWeight == 20
DefaultDxWeight == 15

DEFAULT_OPTIONS ==
    [maxSamples |-> Null,
     weights |-> [accuracy |-> Num(DefaultAccuracyWeight),
                  latency |-> Num(DefaultLatencyWeight),
                  cost |-> Num(DefaultCostWeight),
                  dx |-> Num(DefaultDxWeight)]]

\* parsePositiveInteger(value): [ok, value]; the values given are integers
parsePositiveInteger(value) ==
    IF value <= 0 THEN [ok |-> FALSE, value |-> Null]
    ELSE [ok |-> TRUE, value |-> Num(value)]

\* parseWeights(raw, fallback): raw is [given, segs], each segment [key, value],
\* the value a number or, for text that is no finite number, Null.
RECURSIVE ApplyWeightSegments(_, _)
ApplyWeightSegments(segs, next) ==
    IF Len(segs) = 0 THEN [ok |-> TRUE, weights |-> next]
    ELSE IF Head(segs).key \notin DOMAIN next THEN [ok |-> FALSE, weights |-> next]
    ELSE IF ~IsFinite(Head(segs).value) THEN [ok |-> FALSE, weights |-> next]
    ELSE ApplyWeightSegments(Tail(segs),
                             [next EXCEPT ![Head(segs).key] = Head(segs).value])

parseWeights(raw, fallback) ==
    IF ~raw.given THEN [ok |-> TRUE, weights |-> fallback]
    ELSE ApplyWeightSegments(raw.segs, fallback)

-----------------------------------------------------------------------------
(* Provider adapters.  What a call meets outside the program is env:        *)
(* audioExists (existsSync), apiKey (the environment variable is set),      *)
(* timedOut (the timer fires before the process closes or the fetch         *)
(* resolves), success (exit code 0, or response.ok), hasText (the response  *)
(* carries a string transcript field), output (stdout, or that field).      *)

\* an adapter's outcome: the transcript returned or the error thrown, with the
\* number of HTTP requests issued and of processes spawned on the way
Ok(transcript, requested, spawned) ==
    [ok |-> TRUE, transcript |-> transcript, error |-> "",
     requested |-> requested, spawned |-> spawned]

Fail(message, requested, spawned) ==
    [ok |-> FALSE, transcript |-> <<>>, error |-> message,
     requested |-> requested, spawned |-> spawned]

transcribeCommand(env) ==
    IF env.timedOut THEN Fail("Timeout", 0, 1)
    ELSE IF ~env.success THEN Fail("CommandFailed", 0, 1)
    ELSE IF Len(Trim(env.output)) = 0 THEN Fail("EmptyOutput", 0, 1)
    ELSE Ok(Trim(env.output), 0, 1)

\* a remote adapter that sends the request again after a failed response
transcribeRemoteRetry(env) ==
    IF env.timedOut THEN Fail("Timeout", 1, 0)
    ELSE IF ~env.success THEN Fail("ProviderHttpError", 2, 0)
    ELSE IF ~env.hasText \/ Len(env.output) = 0
         THEN Fail("MalformedResponse", 1, 0)
    ELSE Ok(Trim(env.output), 1, 0)

\* transcribeOpenAiCompatible and transcribeDeepgram differ in the request
\* and in where the transcript sits in the response body
transcribeRemote(env) ==
    IF env.timedOut THEN Fail("Timeout", 1, 0)
    ELSE IF ~env.success THEN Fail("ProviderHttpError", 1, 0)
    ELSE IF ~env.hasText \/ Len(env.output) = 0
         THEN Fail("MalformedResponse", 1, 0)
    ELSE Ok(Trim(env.output), 1, 0)

RemoteTypes == {"openai", "groq", "deepgram"}

\* a dispatch that looks for the audio file after the provider's command and
\* credential
transcribeWithProviderAudioLast(provider, sample, env) ==
    IF sample.isNull \/ sample.id.t # "string" \/ sample.id.v = ""
    THEN Fail("InvalidSample", 0, 0)
    ELSE IF sample.reference.t # "string"
    THEN Fail("InvalidSample", 0, 0)
    ELSE IF provider.type = StrId("datasetHypothesis")
    THEN
        LET field == IF provider.field.t = "undefined"
                     THEN provider.id.v ELSE provider.field.v
            transcript == IF field \in DOMAIN sample.hypotheses
                          THEN sample.hypotheses[field] ELSE UndefText
        IN  IF transcript.t # "string" \/ Len(transcript.v) = 0
            THEN Fail("MissingHypothesis", 0, 0)
            ELSE Ok(transcript.v, 0, 0)
    ELSE IF sample.audioFile.t # "string"
    THEN Fail("MissingAudioFile", 0, 0)
    ELSE IF provider.type = StrId("command")
    THEN
        IF provider.command.t # "string" \/ provider.command.v = ""
        THEN Fail("CommandNotDefined", 0, 0)
        ELSE IF ~env.audioExists THEN Fail("AudioFileNotFound", 0, 0)
        ELSE transcribeCommand(env)
    ELSE IF provider.type.v \in RemoteTypes
    THEN
        IF ~env.apiKey THEN Fail("MissingCredential", 0, 0)
        ELSE IF ~env.audioExists THEN Fail("AudioFileNotFound", 0, 0)
        ELSE transcribeRemote(env)
    ELSE Fail("UnsupportedProviderType", 0, 0)

\* a dispatch that rejects an unsupported provider type before it looks at the
\* sample
transcribeWithProviderTypeFirst(provider, sample, env) ==
    IF provider.type.v \notin RemoteTypes \cup {"datasetHypothesis", "command"}
    THEN Fail("UnsupportedProviderType", 0, 0)
    ELSE IF sample.isNull \/ sample.id.t # "string" \/ sample.id.v = ""
    THEN Fail("InvalidSample", 0, 0)
    ELSE IF sample.reference.t # "string"
    THEN Fail("InvalidSample", 0, 0)
    ELSE IF provider.type = StrId("datasetHypothesis")
    THEN
        LET field == IF provider.field.t = "undefined"
                     THEN provider.id.v ELSE provider.field.v
            transcript == IF field \in DOMAIN sample.hypotheses
                          THEN sample.hypotheses[field] ELSE UndefText
        IN  IF transcript.t # "string" \/ Len(transcript.v) = 0
            THEN Fail("MissingHypothesis", 0, 0)
            ELSE Ok(transcript.v, 0, 0)
    ELSE IF sample.audioFile.t # "string"
    THEN Fail("MissingAudioFile", 0, 0)
    ELSE IF ~env.audioExists
    THEN Fail("AudioFileNotFound", 0, 0)
    ELSE IF provider.type = StrId("command")
    THEN
        IF provider.command.t # "string" \/ provider.command.v = ""
        THEN Fail("CommandNotDefined", 0, 0)
        ELSE transcribeCommand(env)
    ELSE IF ~env.apiKey THEN Fail("MissingCredential", 0, 0)
    ELSE transcribeRemote(env)

transcribeWithProvider(provider, sample, env) ==
    IF sample.isNull \/ sample.id.t # "string" \/ sample.id.v = ""
    THEN Fail("InvalidSample", 0, 0)
    ELSE IF sample.reference.t # "string"
    THEN Fail("InvalidSample", 0, 0)
    ELSE IF provider.type = StrId("datasetHypothesis")
    THEN
        LET field == IF provider.field.t = "undefined"
                     THEN provider.id.v ELSE provider.field.v
            transcript == IF field \in DOMAIN sample.hypotheses
                          THEN sample.hypotheses[field] ELSE UndefText
        IN  IF transcript.t # "string" \/ Len(transcript.v) = 0
            THEN Fail("MissingHypothesis", 0, 0)
            ELSE Ok(transcript.v, 0, 0)
    ELSE IF sample.audioFile.t # "string"
    THEN Fail("MissingAudioFile", 0, 0)
    ELSE IF ~env.audioExists
    THEN Fail("AudioFileNotFound", 0, 0)
    ELSE IF provider.type = StrId("command")
    THEN
        IF provider.command.t # "string" \/ provider.command.v = ""
        THEN Fail("CommandNotDefined", 0, 0)
        ELSE transcribeCommand(env)
    ELSE IF provider.type.v \in RemoteTypes
    THEN
        IF ~env.apiKey THEN Fail("MissingCredential", 0, 0)
        ELSE transcribeRemote(env)
    ELSE Fail("UnsupportedProviderType", 0, 0)

-----------------------------------------------------------------------------
(* summarizeProviderResults *)

\* aggregates that take their values from all rows of the provider, the failed
\* ones included
AggregateRowOverAllRows(allResults, provider) ==
    LET OfProvider(row) == row.providerId = provider.id
        IsOk(row) == row.status = "ok"
        WerOf(row) == row.wer
        CerOf(row) == row.cer
        LatencyOf(row) == row.latencyMs
        rows == SelectSeq(allResults, OfProvider)
        okRows == SelectSeq(rows, IsOk)
        werValues == SelectSeq(MapSeq(rows, WerOf), IsFinite)
        cerValues == SelectSeq(MapSeq(rows, CerOf), IsFinite)
        latencyValues == SelectSeq(MapSeq(rows, LatencyOf), IsFinite)
    IN  [providerId |-> provider.id,
         providerType |-> provider.type,
         totalSamples |-> Len(rows),
         okCount |-> Len(okRows),
         errorCount |-> Len(rows) - Len(okRows),
         successRatePct |-> IF Len(rows) # 0
                            THEN Rat(Len(okRows) * 100, Len(rows)) ELSE Num(0),
         avgWer |-> mean(werValues),
         medianWer |-> percentile(werValues, 50),
         avgCer |-> mean(cerValues),
         avgLatencyMs |-> mean(latencyValues),
         p90LatencyMs |-> percentile(latencyValues, 90),
         costPerHourUsd |-> IF IsFinite(provider.costPerHourUsd)
                            THEN provider.costPerHourUsd ELSE Null,
         integrationEffort |->
             IF /\ IsFinite(provider.integrationEffort)
                /\ RLeq(Num(1), provider.integrationEffort)
                /\ RLeq(provider.integrationEffort, Num(5))
             THEN provider.integrationEffort ELSE Null]

\* lines 546-570: the aggregates of one provider's rows
AggregateRow(allResults, provider) ==
    LET OfProvider(row) == row.providerId = provider.id
        IsOk(row) == row.status = "ok"
        WerOf(row) == row.wer
        CerOf(row) == row.cer
        LatencyOf(row) == row.latencyMs
        rows == SelectSeq(allResults, OfProvider)
        okRows == SelectSeq(rows, IsOk)
        werValues == SelectSeq(MapSeq(okRows, WerOf), IsFinite)
        cerValues == SelectSeq(MapSeq(okRows, CerOf), IsFinite)
        latencyValues == SelectSeq(MapSeq(okRows, LatencyOf), IsFinite)
    IN  [providerId |-> provider.id,
         providerType |-> provider.type,
         totalSamples |-> Len(rows),
         okCount |-> Len(okRows),
         errorCount |-> Len(rows) - Len(okRows),
         successRatePct |-> IF Len(rows) # 0
                            THEN Rat(Len(okRows) * 100, Len(rows)) ELSE Num(0),
         avgWer |-> mean(werValues),
         medianWer |-> percentile(werValues, 50),
         avgCer |-> mean(cerValues),
         avgLatencyMs |-> mean(latencyValues),
         p90LatencyMs |-> percentile(latencyValues, 90),
         costPerHourUsd |-> IF IsFinite(provider.costPerHourUsd)
                            THEN provider.costPerHourUsd ELSE Null,
         integrationEffort |->
             IF /\ IsFinite(provider.integrationEffort)
                /\ RLeq(Num(1), provider.integrationEffort)
                /\ RLeq(provider.integrationEffort, Num(5))
             THEN provider.integrationEffort ELSE Null]

CriterionKeys == <<"accuracy", "latency", "cost", "dx">>

\* a total that divides by the default weight sum instead of the active weight
TotalScoreUnnormalised(scores, weights) ==
    LET Defined(key) == IsFinite(scores[key])
        components == SelectSeq(CriterionKeys, Defined)
        Share(key) == RDiv(RMul(scores[key], weights[key]), Num(100))
    IN  IF Len(components) = 0 THEN Null
        ELSE RSum(MapSeq(components, Share))

\* a total that counts a missing score as a score of 0
TotalScoreMissingAsZero(scores, weights) ==
    LET Defined(key) == IsFinite(scores[key])
        components == SelectSeq(CriterionKeys, Defined)
        WeightOf(key) == weights[key]
        allWeight == RSum(MapSeq(CriterionKeys, WeightOf))
        Share(key) == RDiv(RMul(scores[key], weights[key]), allWeight)
    IN  IF allWeight = Num(0) \/ Len(components) = 0 THEN Null
        ELSE RSum(MapSeq(components, Share))

\* lines 606-623: the composite total of the four scores, by criterion key
TotalScore(scores, weights) ==
    LET Defined(key) == IsFinite(scores[key])
        components == SelectSeq(CriterionKeys, Defined)
        WeightOf(key) == weights[key]
        activeWeight == RSum(MapSeq(components, WeightOf))
        Share(key) == RDiv(RMul(scores[key], weights[key]), activeWeight)
    IN  IF activeWeight = Num(0) THEN Null
        ELSE RSum(MapSeq(components, Share))

\* an accuracy score without the clamp
AccuracyScoreUnclamped(row) ==
    IF IsFinite(row.avgWer)
    THEN RMul(RSub(Num(1), row.avgWer), Num(100))
    ELSE Null

\* lines 583-587
AccuracyScore(row) ==
    IF IsFinite(row.avgWer)
    THEN clamp(RMul(RSub(Num(1), row.avgWer), Num(100)), Num(0), Num(100))
    ELSE Null

\* a latency score that gives a mean latency of 0 the full score
LatencyScoreZeroIsBest(row, bestLatency) ==
    IF IsFinite(bestLatency) /\ IsFinite(row.avgLatencyMs)
    THEN IF row.avgLatencyMs = Num(0) THEN Num(100)
         ELSE clamp(RMul(RDiv(bestLatency, row.avgLatencyMs), Num(100)),
                    Num(0), Num(100))
    ELSE Null

LatencyScore(row, bestLatency) ==
    IF IsFinite(bestLatency) /\ IsFinite(row.avgLatencyMs)
       /\ RLess(Num(0), row.avgLatencyMs)
    THEN clamp(RMul(RDiv(bestLatency, row.avgLatencyMs), Num(100)), Num(0), Num(100))
    ELSE Null

\* a cost score that compares a priced provider with the cheapest priced one
\* even when a free provider is in the run
CostScoreWithoutDominance(row, hasZeroCost, lowestPositiveCost) ==
    IF IsFinite(row.costPerHourUsd)
    THEN IF row.costPerHourUsd = Num(0) THEN Num(100)
         ELSE IF IsFinite(lowestPositiveCost) /\ RLess(Num(0), row.costPerHourUsd)
         THEN clamp(RMul(RDiv(lowestPositiveCost, row.costPerHourUsd), Num(100)),
                    Num(0), Num(100))
         ELSE Null
    ELSE Null

\* lines 588-600
CostScore(row, hasZeroCost, lowestPositiveCost) ==
    IF IsFinite(row.costPerHourUsd)
    THEN IF row.costPerHourUsd = Num(0) THEN Num(100)
         ELSE IF hasZeroCost THEN Num(0)
         ELSE IF IsFinite(lowestPositiveCost) /\ RLess(Num(0), row.costPerHourUsd)
         THEN clamp(RMul(RDiv(lowestPositiveCost, row.costPerHourUsd), Num(100)),
                    Num(0), Num(100))
         ELSE Null
    ELSE Null

\* lines 601-604
DxScore(row) ==
    IF IsFinite(row.integrationEffort)
    THEN clamp(RMul(RDiv(RSub(Num(5), row.integrationEffort), Num(4)), Num(100)),
               Num(0), Num(100))
    ELSE Null

\* lines 582-624: one row with its scores and total
ScoreRow(row, bestLatency, hasZeroCost, lowestPositiveCost, weights) ==
    LET scores == [accuracy |-> AccuracyScore(row),
                   latency |-> LatencyScore(row, bestLatency),
                   cost |-> CostScore(row, hasZeroCost, lowestPositiveCost),
                   dx |-> DxScore(row)]
    IN  [providerId |-> row.providerId,
         providerType |-> row.providerType,
         totalSamples |-> row.totalSamples,
         okCount |-> row.okCount,
         errorCount |-> row.errorCount,
         successRatePct |-> row.successRatePct,
         avgWer |-> row.avgWer,
         medianWer |-> row.medianWer,
         avgCer |-> row.avgCer,
         avgLatencyMs |-> row.avgLatencyMs,
         p90LatencyMs |-> row.p90LatencyMs,
         costPerHourUsd |-> row.costPerHourUsd,
         integrationEffort |-> row.integrationEffort,
         accuracyScore |-> scores.accuracy,
         latencyScore |-> scores.latency,
         costScore |-> scores.cost,
         dxScore |-> scores.dx,
         totalScore |-> TotalScore(scores, weights)]

\* lines 626-635: the comparator; negative puts left first
CompareRows(left, right) ==
    LET leftScore == IF IsFinite(left.totalScore) THEN left.totalScore ELSE Num(-1)
        rightScore == IF IsFinite(right.totalScore) THEN right.totalScore ELSE Num(-1)
        leftAccuracy ==
            IF IsFinite(left.accuracyScore) THEN left.accuracyScore ELSE Num(-1)
        rightAccuracy ==
            IF IsFinite(right.accuracyScore) THEN right.accuracyScore ELSE Num(-1)
    IN  IF rightScore # leftScore THEN RSub(rightScore, leftScore)
        ELSE RSub(rightAccuracy, leftAccuracy)

\* Array.prototype.sort is stable: x goes after every element that does not
\* compare after it
RECURSIVE InsertRow(_, _)
InsertRow(sorted, x) ==
    IF Len(sorted) = 0 THEN <<x>>
    ELSE IF RLess(Num(0), CompareRows(sorted[Len(sorted)], x))
    THEN Append(InsertRow(SubSeq(sorted, 1, Len(sorted) - 1), x), sorted[Len(sorted)])
    ELSE Append(sorted, x)

RECURSIVE SortSummary(_)
SortSummary(rows) ==
    IF Len(rows) = 0 THEN <<>>
    ELSE InsertRow(SortSummary(SubSeq(rows, 1, Len(rows) - 1)), rows[Len(rows)])

summarizeProviderResults(allResults, providerList, weights) ==
    LET Aggregate(provider) == AggregateRow(allResults, provider)
        AvgLatencyOf(row) == row.avgLatencyMs
        CostOf(row) == row.costPerHourUsd
        NonNegative(value) == IsFinite(value) /\ RLeq(Num(0), value)
        Positive(value) == RLess(Num(0), value)
        rows == MapSeq(providerList, Aggregate)
        bestLatency == MathMin(SelectSeq(MapSeq(rows, AvgLatencyOf), IsFinite))
        availableCosts == SelectSeq(MapSeq(rows, CostOf), NonNegative)
        hasZeroCost == \E k \in 1..Len(availableCosts) : availableCosts[k] = Num(0)
        lowestPositiveCost == MathMin(SelectSeq(availableCosts, Positive))
        Score(row) == ScoreRow(row, bestLatency, hasZeroCost, lowestPositiveCost, weights)
    IN  SortSummary(MapSeq(rows, Score))

-----------------------------------------------------------------------------
(* Inputs: command lines, dataset files and provider files *)

MaxSampleLimit == 2

RefFive == <<"a", " ", "b", " ", "c", " ", "d", " ", "e">>
HypSame == <<"A", " ", "b", ",", " ", "\t", "c", " ", "d", "'", " ", "e", ".">>
HypOneOff == <<"a", " ", "b", " ", "c", " ", "d", " ", "x">>
HypLong == <<"x", " ", "x", " ", "x", " ", "x", " ", "x", " ", "x">>
RefShort == <<"a", " ", "b">>

\* what a process prints or a provider answers
Outputs == {<<" ">>, HypOneOff, <<" ", "a", " ", "b", " ">>}

\* elapsed milliseconds of a call (performance.now() differences)
Latencies == {0, 3, 5}

\* the cases a call can meet; a field that the earlier ones leave unread is
\* held at one value
QuietEnv ==
    [audioExists |-> TRUE, apiKey |-> TRUE, timedOut |-> FALSE,
     success |-> TRUE, hasText |-> TRUE, output |-> HypOneOff]

Envs ==
    {[QuietEnv EXCEPT !.audioExists = FALSE, !.apiKey = k] : k \in BOOLEAN}
    \cup {[QuietEnv EXCEPT !.apiKey = FALSE],
          [QuietEnv EXCEPT !.timedOut = TRUE],
          [QuietEnv EXCEPT !.success = FALSE],
          [QuietEnv EXCEPT !.hasText = FALSE]}
    \cup {[QuietEnv EXCEPT !.output = o] : o \in Outputs}

\* a dataset-hypothesis provider reads the sample only
EnvsFor(provider) ==
    IF provider.type = StrId("datasetHypothesis") THEN {QuietEnv} ELSE Envs

\* a lookup can take less than the clock resolves; a process or a request cannot
LatenciesFor(provider) ==
    IF provider.type = StrId("datasetHypothesis") THEN Latencies ELSE Latencies \ {0}

JsonLine(value) == [kind |-> "json", value |-> value]
OtherLine(kind) == [kind |-> kind, value |-> NullSample]

Columns == [h1 |-> Text(HypSame), h2 |-> Text(HypOneOff), h3 |-> Text(HypLong),
            h5 |-> Text(<<>>), p1 |-> Text(HypSame)]

S1 == MkSample(StrId("s1"), Text(RefFive), StrId("s1.wav"), Columns)
S2 == MkSample(StrId("s2"), Text(RefShort), StrId("s2.wav"), EmptyObject)
SNoId == MkSample(NumId, Text(RefShort), StrId("s3.wav"), Columns)
SNoReference == MkSample(StrId("s4"), UndefText, StrId("s4.wav"), Columns)
SNoAudio == MkSample(StrId("s5"), Text(RefFive), UndefId, Columns)

DatasetFiles ==
    { <<OtherLine("comment"), OtherLine("blank")>>,
      <<OtherLine("comment"), JsonLine(S1), OtherLine("blank"), JsonLine(S2)>>,
      <<JsonLine(S1), OtherLine("malformed")>>,
      <<JsonLine(S1), JsonLine(NullSample), JsonLine(S2)>>,
      <<JsonLine(SNoId), JsonLine(SNoAudio)>>,
      <<JsonLine(SNoReference)>> }

HypProvider(id, field, cost, effort) ==
    MkProvider(StrId(id), StrId("datasetHypothesis"), "absent", field, UndefId,
               cost, effort)

P1 == HypProvider("p1", UndefId, Null, Null)
Cmd == MkProvider(StrId("cmd"), StrId("command"), "true", UndefId,
                  StrId("stt {{audioFile}}"), Num(5), Num(2))
CmdNoCommand == [Cmd EXCEPT !.command = UndefId]
Oai == MkProvider(StrId("oai"), StrId("openai"), "zero", UndefId, UndefId,
                  Num(10), Num(7))
Deepgram == [Oai EXCEPT !.id = StrId("dg"), !.type = StrId("deepgram"),
                        !.enabled = "absent"]
Unsupported == [Oai EXCEPT !.id = StrId("wx"), !.type = StrId("whisperx")]
Disabled == [Cmd EXCEPT !.enabled = "false"]
NoId == [Cmd EXCEPT !.id = UndefId]
NoType == [Cmd EXCEPT !.type = NumId]

ArrayFile(items) == [kind |-> "array", items |-> items]

ProviderFiles ==
    { [kind |-> "object", items |-> <<>>],
      [kind |-> "malformed", items |-> <<>>],
      ArrayFile(<<>>),
      ArrayFile(<<Disabled>>),
      ArrayFile(<<P1>>),
      ArrayFile(<<P1, Disabled, Oai>>),
      ArrayFile(<<Cmd>>),
      ArrayFile(<<CmdNoCommand>>),
      ArrayFile(<<Deepgram>>),
      ArrayFile(<<Unsupported>>),
      ArrayFile(<<P1, NoId>>),
      ArrayFile(<<NoType, P1>>),
      ArrayFile(<<P1, NullProvider>>) }

NotGiven == [given |-> FALSE, value |-> 0]
Given(value) == [given |-> TRUE, value |-> value]
MaxSamplesArgs == {NotGiven} \cup {Given(k) : k \in 0..MaxSampleLimit}

NoWeights == [given |-> FALSE, segs |-> <<>>]
WeightsArg(segs) == [given |-> TRUE, segs |-> segs]
Seg(key, value) == [key |-> key, value |-> value]
ZeroAccuracyLatency == WeightsArg(<<Seg("accuracy", Num(0)), Seg("latency", Num(0))>>)
NegativeDx == WeightsArg(<<Seg("dx", Num(-15))>>)
OnlyDx == WeightsArg(<<Seg("accuracy", Num(0)), Seg("latency", Num(0)),
                       Seg("cost", Num(0))>>)
UnknownKey == WeightsArg(<<Seg("speed", Num(10))>>)
NotFinite == WeightsArg(<<Seg("accuracy", Null)>>)

\* the orchestration inputs: every file with every file, default weights
OrchestrationInputs ==
    [maxSamples : MaxSamplesArgs, weights : {NoWeights},
     datasetFile : DatasetFiles, providersFile : ProviderFiles]
    \cup
    [maxSamples : {NotGiven}, weights : {UnknownKey, NotFinite},
     datasetFile : {<<JsonLine(S1)>>}, providersFile : {ArrayFile(<<P1>>)}]

\* the scoring inputs: two dataset-hypothesis providers over one sample
CostEffort == {<<Null, Null>>, <<Num(0), Num(1)>>, <<Num(5), Num(3)>>,
               <<Num(10), Num(5)>>, <<Null, Num(1)>>}
Fields == {"h1", "h2", "h3", "h4"}

ScoringProviders(id) ==
    {HypProvider(id, StrId(f), ce[1], ce[2]) : f \in Fields, ce \in CostEffort}

SecondProviders(id) ==
    {HypProvider(id, StrId("h1"), Null, Null),
     HypProvider(id, StrId("h2"), Null, Num(1)),
     HypProvider(id, StrId("h3"), Num(0), Num(1)),
     HypProvider(id, StrId("h4"), Null, Null),
     HypProvider(id, StrId("h2"), Num(5), Num(3)),
     HypProvider(id, StrId("h1"), Num(10), Num(5))}

ScoringInputs ==
    [maxSamples : {NotGiven},
     weights : {NoWeights, ZeroAccuracyLatency, NegativeDx},
     datasetFile : {<<JsonLine(S1)>>},
     providersFile : {ArrayFile(<<a, b>>) :
                        a \in ScoringProviders("p1"), b \in SecondProviders("p2")}]

\* the ranking inputs: three providers that differ in their transcript only
RankingProviders(id) ==
    {HypProvider(id, StrId("h1"), Null, Num(1)),
     HypProvider(id, StrId("h2"), Null, Num(1)),
     HypProvider(id, StrId("h4"), Null, Null)}

RankingInputs ==
    [maxSamples : {NotGiven},
     weights : {NoWeights, OnlyDx},
     datasetFile : {<<JsonLine(S1)>>},
     providersFile : {ArrayFile(<<a, b, c>>) :
                        a \in RankingProviders("p1"), b \in RankingProviders("p2"),
                        c \in RankingProviders("p3")}]

\* the cost inputs: providers priced 0, 5 and 10 dollars an hour, or unpriced
Priced(id, cost) == HypProvider(id, StrId("h1"), cost, Null)

CostInputs ==
    [maxSamples : {NotGiven},
     weights : {NoWeights},
     datasetFile : {<<JsonLine(S1)>>},
     providersFile : {ArrayFile(<<Priced("p1", Num(0)), Priced("p2", Num(5)),
                                  Priced("p3", Num(10))>>),
                      ArrayFile(<<Priced("p1", Num(10)), Priced("p2", Null),
                                  Priced("p3", Num(5))>>)}]

\* the hypothesis inputs: a hypothesis that is a text, the empty string, a
\* number or absent, looked up by the configured field or by the provider's id
NumText == [t |-> "number", v |-> <<>>]
SHyp == MkSample(StrId("s6"), Text(RefShort), UndefId,
                 [p1 |-> Text(<<" ", "a", " ", "b">>), h1 |-> Text(RefShort),
                  h5 |-> Text(<<>>), h6 |-> NumText])

HypothesisInputs ==
    [maxSamples : {NotGiven},
     weights : {NoWeights},
     datasetFile : {<<JsonLine(SHyp), JsonLine(S2)>>},
     providersFile : {ArrayFile(<<HypProvider("p1", f, Null, Null)>>) :
                        f \in {UndefId, StrId("h1"), StrId("h5"), StrId("h6"),
                               StrId("h7")}}]

\* the shared-id inputs: two enabled providers that are configured with the
\* same id, which the run does not reject (lines 713-731); the provider
\* file does not meet the format, which asks for unique ids
SharedIdInputs ==
    [maxSamples : {NotGiven, Given(1)},
     weights : {NoWeights},
     datasetFile : {<<JsonLine(S1), JsonLine(S2)>>},
     providersFile : {ArrayFile(<<HypProvider("p1", StrId("h1"), Null, Null),
                                  HypProvider("p1", StrId("h2"), Num(5), Num(3))>>)}]

Inputs ==
    OrchestrationInputs \cup ScoringInputs \cup RankingInputs \cup CostInputs
    \cup HypothesisInputs

-----------------------------------------------------------------------------
(* main *)

\* readJsonLines (lines 264-282): [ok, data]
readJsonLines(file) ==
    LET IsJson(line) == line.kind = "json"
        ValueOf(line) == line.value
    IN  IF \E k \in 1..Len(file) : file[k].kind = "malformed"
        THEN [ok |-> FALSE, data |-> <<>>]
        ELSE [ok |-> TRUE, data |-> MapSeq(SelectSeq(file, IsJson), ValueOf)]

\* lines 752-762
OkResult(provider, sample, latencyMs, transcript) ==
    [sampleId |-> sample.id,
     providerId |-> provider.id,
     status |-> "ok",
     latencyMs |-> Num(latencyMs),
     wer |-> computeWordErrorRate(sample.reference.v, transcript),
     cer |-> computeCharacterErrorRate(sample.reference.v, transcript),
     transcript |-> Text(transcript),
     reference |-> sample.reference,
     tags |-> sample.tags,
     error |-> UndefId]

\* an error result that scores the failure as an error rate of 0
ErrorResultScoredZero(provider, sample, latencyMs, message) ==
    [sampleId |-> sample.id,
     providerId |-> provider.id,
     status |-> "error",
     latencyMs |-> Num(latencyMs),
     wer |-> Num(0),
     cer |-> Num(0),
     transcript |-> NullText,
     reference |-> sample.reference,
     tags |-> sample.tags,
     error |-> StrId(message)]

\* lines 771-782
ErrorResult(provider, sample, latencyMs, message) ==
    [sampleId |-> sample.id,
     providerId |-> provider.id,
     status |-> "error",
     latencyMs |-> Num(latencyMs),
     wer |-> Null,
     cer |-> Null,
     transcript |-> NullText,
     reference |-> sample.reference,
     tags |-> sample.tags,
     error |-> StrId(message)]

\* the position after sample si of provider pi (the two for loops)
NextPosition(p, s, sampleCount) ==
    IF s < sampleCount THEN [pc |-> "sample", pi |-> p, si |-> s + 1]
    ELSE [pc |-> "provider", pi |-> p + 1, si |-> 1]

\* a promise not settled yet
Pending == Fail("pending", 0, 0)

\* no adapter call is followed step by step
NoAdapterCall ==
    [kind |-> "none", timeoutMs |-> 0, clock |-> 0, timer |-> "cleared",
     phase |-> "settled", process |-> "none", outcome |-> Pending,
     settledAt |-> -1, closedAt |-> -1, exit |-> QuietEnv]

\* no hook is mounted
NoHook == [mounted |-> FALSE]

\* no helper is called on its own while main runs
NoCall == [fn |-> "main", args |-> <<>>, returned |-> <<>>, done |-> FALSE]

\* the state before main runs on one of the inputs
InitWith(inputs) ==
    /\ unit = NoCall
    /\ call = NoAdapterCall
    /\ hook = NoHook
    /\ \E input \in inputs :
        /\ argv = [maxSamples |-> input.maxSamples, weights |-> input.weights]
        /\ datasetFile = input.datasetFile
        /\ providersFile = input.providersFile
    /\ options = DEFAULT_OPTIONS
    /\ pc = "start"
    /\ dataset = <<>>
    /\ providers = <<>>
    /\ samples = <<>>
    /\ pi = 1
    /\ si = 1
    /\ sampleResults = <<>>
    /\ calls = <<>>
    /\ requests = <<>>
    /\ summary = <<>>
    /\ report = <<>>
    /\ failure = ""
    /\ io = <<>>

Init == InitWith(Inputs)

\* lines 700-709
ParseArgs ==
    /\ pc = "start"
    /\ LET limit == IF argv.maxSamples.given
                    THEN parsePositiveInteger(argv.maxSamples.value)
                    ELSE [ok |-> TRUE, value |-> DEFAULT_OPTIONS.maxSamples]
           parsed == parseWeights(argv.weights, DEFAULT_OPTIONS.weights)
       IN  IF ~limit.ok
           THEN pc' = "failed" /\ failure' = "InvalidMaxSamples" /\ UNCHANGED options
           ELSE IF ~parsed.ok
           THEN pc' = "failed" /\ failure' = "InvalidWeights" /\ UNCHANGED options
           ELSE /\ options' = [maxSamples |-> limit.value, weights |-> parsed.weights]
                /\ pc' = "parsed"
                /\ UNCHANGED failure
    /\ UNCHANGED <<unit, call, hook, io, argv, datasetFile, providersFile, dataset, providers, samples,
                   pi, si, sampleResults, calls, requests, summary, report>>

\* lines 711-715
LoadInputs ==
    /\ pc = "parsed"
    /\ LET read == readJsonLines(datasetFile)
       IN  IF ~read.ok
           THEN pc' = "failed" /\ failure' = "InvalidJsonl" /\ UNCHANGED dataset
           ELSE IF providersFile.kind = "malformed"
           THEN pc' = "failed" /\ failure' = "InvalidJson" /\ UNCHANGED dataset
           ELSE IF providersFile.kind # "array"
           THEN pc' = "failed" /\ failure' = "ProviderConfigNotArray"
                /\ UNCHANGED dataset
           ELSE dataset' = read.data /\ pc' = "loaded" /\ UNCHANGED failure
    /\ UNCHANGED <<unit, call, hook, io, argv, options, datasetFile, providersFile, providers, samples,
                   pi, si, sampleResults, calls, requests, summary, report>>

\* a filter on the truthiness of enabled, which also drops enabled: 0
IsEnabledTruthy(provider) == provider.enabled \notin {"false", "zero"}

\* line 717: provider.enabled !== false
IsEnabled(provider) == provider.enabled # "false"

\* lines 717-734
SelectInputs ==
    /\ pc = "loaded"
    /\ LET items == providersFile.items
           enabledProviders == SelectSeq(items, IsEnabled)
           sampleLimit == IF IsFinite(options.maxSamples)
                          THEN options.maxSamples.n ELSE Len(dataset)
           sliced == SubSeq(dataset, 1,
                            IF sampleLimit < Len(dataset) THEN sampleLimit ELSE Len(dataset))
       IN  IF \E k \in 1..Len(items) : items[k].isNull
           THEN pc' = "failed" /\ failure' = "TypeErrorEnabledOfNull"
                /\ UNCHANGED <<providers, samples>>
           ELSE IF Len(enabledProviders) = 0
           THEN pc' = "failed" /\ failure' = "NoEnabledProviders"
                /\ UNCHANGED <<providers, samples>>
           ELSE IF Len(sliced) = 0
           THEN pc' = "failed" /\ failure' = "NoSamples"
                /\ UNCHANGED <<providers, samples>>
           ELSE /\ providers' = enabledProviders
                /\ samples' = sliced
                /\ pc' = "provider"
                /\ UNCHANGED failure
    /\ UNCHANGED <<unit, call, hook, io, argv, options, datasetFile, providersFile, dataset,
                   pi, si, sampleResults, calls, requests, summary, report>>

\* lines 735-743: the head of the outer loop
ValidProviderId(provider) == provider.id.t = "string" /\ provider.id.v # ""
ValidProviderType(provider) == provider.type.t = "string" /\ provider.type.v # ""

BeginProvider ==
    /\ pc = "provider"
    /\ pi <= Len(providers)
    /\ IF ~ValidProviderId(providers[pi])
       THEN pc' = "failed" /\ failure' = "ProviderMissingId"
       ELSE IF ~ValidProviderType(providers[pi])
       THEN pc' = "failed" /\ failure' = "ProviderMissingType"
       ELSE pc' = "sample" /\ UNCHANGED failure
    /\ UNCHANGED <<unit, call, hook, io, argv, options, datasetFile, providersFile, dataset, providers,
                   samples, pi, si, sampleResults, calls, requests, summary, report>>

\* a push that puts the new element first
pushFront(array, element) == <<element>> \o array

\* sampleResults.push(...)
push(array, element) == Append(array, element)

\* lines 744-786: one pass of the inner loop
RunSample ==
    /\ pc = "sample"
    /\ \E env \in EnvsFor(providers[pi]), latencyMs \in LatenciesFor(providers[pi]) :
        LET provider == providers[pi]
            sample == samples[si]
            outcome == transcribeWithProvider(provider, sample, env)
            next == NextPosition(pi, si, Len(samples))
        IN  /\ calls' = Append(calls, <<pi, si>>)
            /\ requests' = requests \o [k \in 1..outcome.requested |-> <<pi, si>>]
            /\ io' = Append(io, [env |-> env, spawned |-> outcome.spawned])
            /\ IF outcome.ok
               THEN /\ sampleResults' = push(sampleResults,
                            OkResult(provider, sample, latencyMs, outcome.transcript))
                    /\ pc' = next.pc /\ pi' = next.pi /\ si' = next.si
                    /\ UNCHANGED failure
               ELSE IF sample.isNull
               \* the catch block reads sample.id of null
               THEN /\ pc' = "failed" /\ failure' = "TypeErrorIdOfNull"
                    /\ UNCHANGED <<sampleResults, pi, si>>
               ELSE /\ sampleResults' = push(sampleResults,
                            ErrorResult(provider, sample, latencyMs, outcome.error))
                    /\ pc' = next.pc /\ pi' = next.pi /\ si' = next.si
                    /\ UNCHANGED failure
    /\ UNCHANGED <<unit, call, hook, argv, options, datasetFile, providersFile, dataset, providers,
                   samples, summary, report>>

\* line 789
Summarize ==
    /\ pc = "provider"
    /\ pi > Len(providers)
    /\ summary' = summarizeProviderResults(sampleResults, providers, options.weights)
    /\ pc' = "report"
    /\ UNCHANGED <<unit, call, hook, io, argv, options, datasetFile, providersFile, dataset, providers,
                   samples, pi, si, sampleResults, calls, requests, report, failure>>

\* lines 792-815: detailOutput, written to the output directory
WriteReport ==
    /\ pc = "report"
    /\ report' = <<[sampleCount |-> Len(samples),
                    providerCount |-> Len(providers),
                    weights |-> options.weights,
                    summary |-> summary,
                    sampleResults |-> sampleResults]>>
    /\ pc' = "done"
    /\ UNCHANGED <<unit, call, hook, io, argv, options, datasetFile, providersFile, dataset, providers,
                   samples, pi, si, sampleResults, calls, requests, summary, failure>>

Next ==
    \/ ParseArgs
    \/ LoadInputs
    \/ SelectInputs
    \/ BeginProvider
    \/ RunSample
    \/ Summarize
    \/ WriteReport

Spec == Init /\ [][Next]_vars

\* the runs of main on every provider file that it accepts, the ones whose
\* providers share an id included
SharedIdInit == InitWith(Inputs \cup SharedIdInputs)

SharedIdSpec == SharedIdInit /\ [][Next]_vars

-----------------------------------------------------------------------------
(* The helper functions called on their own: a call is drawn with its       *)
(* arguments, the helper is applied, and main stays where it is.            *)

mainVars == <<argv, options, datasetFile, providersFile, pc, dataset, providers,
              samples, pi, si, sampleResults, calls, requests, summary, report,
              failure, io>>

\* main is not running
OutsideMain ==
    /\ argv = [maxSamples |-> NotGiven, weights |-> NoWeights]
    /\ options = DEFAULT_OPTIONS
    /\ datasetFile = <<>>
    /\ providersFile = ArrayFile(<<>>)
    /\ pc = "unit"
    /\ dataset = <<>>
    /\ providers = <<>>
    /\ samples = <<>>
    /\ pi = 1
    /\ si = 1
    /\ sampleResults = <<>>
    /\ calls = <<>>
    /\ requests = <<>>
    /\ summary = <<>>
    /\ report = <<>>
    /\ failure = ""
    /\ io = <<>>

Call(fn, args) == [fn |-> fn, args |-> args, returned |-> <<>>, done |-> FALSE]

Returns(value) ==
    /\ unit' = [unit EXCEPT !.returned = value, !.done = TRUE]
    /\ UNCHANGED <<mainVars, call, hook>>

SeqsUpTo(S, n) == UNION {[1..k -> S] : k \in 0..n}

\* the transcripts given to the error rates: every text of up to MaxTextLen
\* characters, and the texts of the dataset
MaxTextLen == 3
TextAlphabet == {"a", "A", " ", ".", "'"}
Texts ==
    SeqsUpTo(TextAlphabet, MaxTextLen)
    \cup {RefFive, HypSame, HypOneOff, HypLong, RefShort,
          <<"acirc">>, <<"a", "ACIRC">>, <<"a", "\t", " ", "1">>}

TextInit ==
    /\ OutsideMain
    /\ call = NoAdapterCall
    /\ hook = NoHook
    /\ \E fn \in {"computeWordErrorRate", "computeCharacterErrorRate"},
          reference \in Texts, hypothesis \in Texts :
            unit = Call(fn, <<reference, hypothesis>>)

ApplyWordErrorRate ==
    /\ unit.fn = "computeWordErrorRate" /\ ~unit.done
    /\ Returns(computeWordErrorRate(unit.args[1], unit.args[2]))

ApplyCharacterErrorRate ==
    /\ unit.fn = "computeCharacterErrorRate" /\ ~unit.done
    /\ Returns(computeCharacterErrorRate(unit.args[1], unit.args[2]))

TextNext ==
    \/ ApplyWordErrorRate
    \/ ApplyCharacterErrorRate

TextSpec == TextInit /\ [][TextNext]_vars

\* the token sequences given to the edit distance
MaxTokens == 3
TokenAlphabet == {"a", "b", "c"}
TokenSeqs == SeqsUpTo(TokenAlphabet, MaxTokens)

DistanceInit ==
    /\ OutsideMain
    /\ call = NoAdapterCall
    /\ hook = NoHook
    /\ \E source \in TokenSeqs, target \in TokenSeqs :
            unit = Call("levenshteinDistance", <<source, target>>)

ApplyLevenshteinDistance ==
    /\ unit.fn = "levenshteinDistance" /\ ~unit.done
    /\ Returns(levenshteinDistance(unit.args[1], unit.args[2]))

DistanceNext ==
    \/ ApplyLevenshteinDistance

DistanceSpec == DistanceInit /\ [][DistanceNext]_vars

\* the lists given to the statistics: every list of up to MaxValues entries,
\* and the lists of the contract's examples
MaxValues == 3
FiniteEntries == {Num(1), Num(2), Num(4), Rat(6, 5)}
OtherEntries == {Null, NaN, Infinity}
TwoFourSix == <<Num(2), Num(4), Num(6)>>
OneToFour == <<Num(1), Num(2), Num(3), Num(4)>>
FourToOne == <<Num(4), Num(3), Num(2), Num(1)>>
MeanInputs == SeqsUpTo(FiniteEntries \cup OtherEntries, MaxValues) \cup {TwoFourSix}
PercentileInputs == SeqsUpTo(FiniteEntries, MaxValues) \cup {OneToFour, FourToOne}
Ranks == {0, 25, 50, 90, 100}

StatisticsInit ==
    /\ OutsideMain
    /\ call = NoAdapterCall
    /\ hook = NoHook
    /\ \/ \E values \in MeanInputs : unit = Call("mean", <<values>>)
       \/ \E values \in PercentileInputs, p \in Ranks :
            unit = Call("percentile", <<values, p>>)

ApplyMean ==
    /\ unit.fn = "mean" /\ ~unit.done
    /\ Returns(mean(unit.args[1]))

\* line 212: the sort is of a copy, the caller's list stays as it is
valuesAfterPercentile(values) == values

\* what percentile returns, and the caller's list after the call
ApplyPercentile ==
    /\ unit.fn = "percentile" /\ ~unit.done
    /\ Returns([value |-> percentile(unit.args[1], unit.args[2]),
                values |-> valuesAfterPercentile(unit.args[1])])

StatisticsNext ==
    \/ ApplyMean
    \/ ApplyPercentile

StatisticsSpec == StatisticsInit /\ [][StatisticsNext]_vars

\* ---------------------------------------------------------------------------
\* One adapter call followed step by step: the timer of the call, the clock,
\* and the events of the provider (response headers, response body, network
\* failure) or of the child process (error, close).  The clock counts units of
\* time; a timer that is armed fires when the clock reaches its delay, so time
\* does not pass beyond the delay of an armed timer.
\* ---------------------------------------------------------------------------
MaxTimeout == 2

Timeouts == 1..MaxTimeout

\* what a provider or a process that answers can answer
Responses == {e \in Envs : e.audioExists /\ e.apiKey /\ ~e.timedOut}

\* the promise of the call takes the first outcome only
Settle(c, outcome) ==
    IF c.phase = "settled" THEN c
    ELSE [c EXCEPT !.phase = "settled", !.outcome = outcome,
                   !.settledAt = c.clock]

clearTimeout(c) ==
    [c EXCEPT !.timer = IF @ = "armed" THEN "cleared" ELSE @]

\* fetchWithTimeout arms the timer and starts the request
StartRemote(timeoutMs) ==
    [NoAdapterCall EXCEPT !.kind = "remote", !.timeoutMs = timeoutMs,
                          !.timer = "armed", !.phase = "fetching"]

\* transcribeCommand spawns the child and arms the timer
StartCommand(timeoutMs) ==
    [NoAdapterCall EXCEPT !.kind = "command", !.timeoutMs = timeoutMs,
                          !.timer = "armed", !.phase = "running",
                          !.process = "running"]

AdapterInit ==
    /\ OutsideMain
    /\ unit = NoCall
    /\ hook = NoHook
    /\ call \in {StartRemote(t) : t \in Timeouts}
                \cup {StartCommand(t) : t \in Timeouts}

Tick ==
    /\ call.clock <= MaxTimeout
    /\ call.timer = "armed" => call.clock < call.timeoutMs
    /\ call' = [call EXCEPT !.clock = @ + 1]
    /\ UNCHANGED <<mainVars, unit, hook>>

\* the response headers arrive: fetch resolves, and the finally block of
\* fetchWithTimeout clears the timer before the body is read
HeadersArrive ==
    /\ call.kind = "remote" /\ call.phase = "fetching"
    /\ call' = [clearTimeout(call) EXCEPT !.phase = "reading"]
    /\ UNCHANGED <<mainVars, unit, hook>>

\* the request fails before any response
FetchFails ==
    /\ call.kind = "remote" /\ call.phase = "fetching"
    /\ call' = Settle(clearTimeout(call), Fail("NetworkError", 1, 0))
    /\ UNCHANGED <<mainVars, unit, hook>>

\* the timer aborts the request
RemoteTimerFires ==
    /\ call.kind = "remote" /\ call.timer = "armed"
    /\ call.clock = call.timeoutMs
    /\ call' = Settle([call EXCEPT !.timer = "fired"],
                      transcribeRemote([QuietEnv EXCEPT !.timedOut = TRUE]))
    /\ UNCHANGED <<mainVars, unit, hook>>

\* response.text() resolves and the body is interpreted
BodyArrives ==
    /\ call.kind = "remote" /\ call.phase = "reading"
    /\ \E env \in Responses :
           call' = Settle([call EXCEPT !.exit = env], transcribeRemote(env))
    /\ UNCHANGED <<mainVars, unit, hook>>

\* a close handler that leaves the timer armed
onCloseKeepsTimer(c, env) ==
    Settle([c EXCEPT !.process = "closed", !.closedAt = c.clock,
                     !.exit = env],
           transcribeCommand(env))

\* child.on("close"): a killed child closes with no exit code
onClose(c, env) ==
    Settle([clearTimeout(c) EXCEPT !.process = "closed",
                                   !.closedAt = c.clock, !.exit = env],
           transcribeCommand(env))

ProcessCloses ==
    /\ call.kind = "command" /\ call.process \in {"running", "killed", "failed"}
    /\ \E env \in Responses :
           /\ call.process # "running" => ~env.success
           /\ call' = onClose(call, env)
    /\ UNCHANGED <<mainVars, unit, hook>>

\* child.on("error"): the child could not be spawned
ProcessErrors ==
    /\ call.kind = "command" /\ call.process = "running"
    /\ call' = Settle([clearTimeout(call) EXCEPT !.process = "failed"],
                      Fail("SpawnFailed", 0, 1))
    /\ UNCHANGED <<mainVars, unit, hook>>

\* the timer kills the child and rejects
CommandTimerFires ==
    /\ call.kind = "command" /\ call.timer = "armed"
    /\ call.clock = call.timeoutMs
    /\ call' = Settle([call EXCEPT !.timer = "fired", !.process = "killed"],
                      transcribeCommand([QuietEnv EXCEPT !.timedOut = TRUE]))
    /\ UNCHANGED <<mainVars, unit, hook>>

AdapterNext ==
    \/ Tick
    \/ HeadersArrive
    \/ FetchFails
    \/ RemoteTimerFires
    \/ BodyArrives
    \/ ProcessCloses
    \/ ProcessErrors
    \/ CommandTimerFires

AdapterSpec == AdapterInit /\ [][AdapterNext]_vars

-----------------------------------------------------------------------------
(* Properties of a run *)

\* what the input files ask for, read off the files themselves
ConfiguredProviders ==
    LET NotDisabled(provider) == provider.enabled # "false"
    IN  SelectSeq(providersFile.items, NotDisabled)

DatasetRecords ==
    LET IsJson(line) == line.kind = "json"
    IN  SelectSeq(datasetFile, IsJson)

CappedCount ==
    IF argv.maxSamples.given /\ argv.maxSamples.value < Len(DatasetRecords)
    THEN argv.maxSamples.value ELSE Len(DatasetRecords)

\* the k-th pair of the run, providers outermost
PairAt(k, sampleCount) == <<((k - 1) \div sampleCount) + 1, ((k - 1) % sampleCount) + 1>>

\* C1: every SampleResult has status ok or error; ok means wer, cer and
\* transcript are set and no error message is; error means the message is set
\* and wer, cer and transcript are not; latencyMs is set in both cases.
C1_StatusDeterminesFields ==
    \A k \in 1..Len(sampleResults) :
        LET r == sampleResults[k]
        IN  /\ r.status \in {"ok", "error"}
            /\ IsFinite(r.latencyMs)
            /\ r.status = "ok" =>
                /\ IsFinite(r.wer) /\ IsFinite(r.cer)
                /\ r.transcript.t = "string"
                /\ r.error.t = "undefined"
            /\ r.status = "error" =>
                /\ r.error.t = "string" /\ r.error.v # ""
                /\ ~IsFinite(r.wer) /\ ~IsFinite(r.cer)
                /\ r.transcript.t # "string"

C1_Witness ==
    /\ \E k \in 1..Len(sampleResults) : sampleResults[k].status = "ok"
    /\ \E k \in 1..Len(sampleResults) :
        sampleResults[k].error = StrId("AudioFileNotFound")

\* C2: a finished run holds exactly one SampleResult for every pair of a
\* provider that is not disabled and a sample within the cap, and none else.
C2_OneResultPerPair ==
    pc = "done" =>
        /\ Len(sampleResults) = Len(ConfiguredProviders) * CappedCount
        /\ \A a \in 1..Len(ConfiguredProviders), b \in 1..CappedCount :
            LET r == sampleResults[(a - 1) * CappedCount + b]
            IN  /\ r.providerId = ConfiguredProviders[a].id
                /\ r.sampleId = DatasetRecords[b].value.id
        /\ report[1].sampleResults = sampleResults

C2_Witness ==
    /\ pc = "done"
    /\ Len(ConfiguredProviders) < Len(providersFile.items)
    /\ \E k \in 1..Len(providersFile.items) : providersFile.items[k].enabled = "zero"
    /\ CappedCount < Len(DatasetRecords)
    /\ \E k \in 1..Len(sampleResults) : sampleResults[k].status = "error"

\* the failures of argument parsing, loading and validation
LoadTimeFailures ==
    {"InvalidMaxSamples", "InvalidWeights", "InvalidJsonl", "InvalidJson",
     "ProviderConfigNotArray", "TypeErrorEnabledOfNull", "NoEnabledProviders",
     "NoSamples", "ProviderMissingId", "ProviderMissingType"}

\* C3: once load-time validation has passed the run completes: every per-call
\* failure is captured as a failed SampleResult and none aborts the run.
C3_PerCallFailureNeverAborts ==
    /\ pc = "failed" => failure \in LoadTimeFailures
    /\ pc # "failed" => Len(sampleResults) = Len(calls)

\* C4: the adapter is invoked exactly once per pair, in order, a remote
\* provider issues at most one request for a pair, and a finished run has
\* called every pair.
C4_NoRetry ==
    /\ \A k \in 1..Len(calls) : calls[k] = PairAt(k, Len(samples))
    /\ \A k \in 1..Len(requests) :
        /\ \E c \in 1..Len(calls) : calls[c] = requests[k]
        /\ \A j \in 1..Len(requests) : j # k => requests[j] # requests[k]
    /\ pc = "done" => Len(calls) = Len(providers) * Len(samples)

C4_Witness ==
    \E k \in 1..Len(sampleResults) :
        /\ sampleResults[k].error = StrId("ProviderHttpError")
        /\ requests # <<>>
        /\ Len(calls) > k
        /\ Len(sampleResults) > k

\* C5: a malformed dataset line, a provider config that is not an array, or a
\* provider without a string id or type aborts the run before any adapter call.
C5_ValidationBeforeAnyCall ==
    (pc = "failed" /\ failure \in {"InvalidJsonl", "InvalidJson",
                                   "ProviderConfigNotArray", "ProviderMissingId",
                                   "ProviderMissingType"})
        => calls = <<>>

\* C6: once both files have loaded, the run fails exactly when no provider is
\* enabled or no sample is left, and then nothing was called or written.
NothingToRun == Len(ConfiguredProviders) = 0 \/ CappedCount = 0

\* (the failures of parsing, loading and validating the two files are not
\* counted against the claim, wherever main raises them)
C6_FatalIffNothingToRun ==
    pc \notin {"start", "parsed"}
    /\ ~(pc = "failed"
         /\ failure \in LoadTimeFailures \ {"NoEnabledProviders", "NoSamples"})
    => /\ pc = "failed" => NothingToRun
       /\ NothingToRun => pc \in {"loaded", "failed"} /\ calls = <<>> /\ report = <<>>

-----------------------------------------------------------------------------
(* Properties of the summary *)

ScoresOf(row) ==
    [accuracy |-> row.accuracyScore, latency |-> row.latencyScore,
     cost |-> row.costScore, dx |-> row.dxScore]

Keys == {"accuracy", "latency", "cost", "dx"}

\* the sum, over the criteria whose score is defined, of the weights
DefinedWeight(scores, weights) ==
    LET Part(key) == IF IsFinite(scores[key]) THEN weights[key] ELSE Num(0)
    IN  RAdd(RAdd(Part("accuracy"), Part("latency")), RAdd(Part("cost"), Part("dx")))

\* the sum, over the criteria whose score is defined, of score * weight
DefinedProduct(scores, weights) ==
    LET Part(key) == IF IsFinite(scores[key])
                     THEN RMul(scores[key], weights[key]) ELSE Num(0)
    IN  RAdd(RAdd(Part("accuracy"), Part("latency")), RAdd(Part("cost"), Part("dx")))

WeightedMean(scores, weights) ==
    IF DefinedWeight(scores, weights) = Num(0) THEN Null
    ELSE RDiv(DefinedProduct(scores, weights), DefinedWeight(scores, weights))

NoneDefined(scores) == \A key \in Keys : ~IsFinite(scores[key])

\* accuracy 80, latency 60, dx 100, cost undefined, weights 40/25/20/15
IsExampleRow(row) ==
    /\ options.weights = DEFAULT_OPTIONS.weights
    /\ row.accuracyScore = Num(80)
    /\ row.latencyScore = Num(60)
    /\ ~IsFinite(row.costScore)
    /\ row.dxScore = Num(100)

InRange(x) == IsFinite(x) => RLeq(Num(0), x) /\ RLeq(x, Num(100))

\* C7, as claimed: the total is the weighted mean over the defined scores
\* (68.75 in the example) and is undefined exactly when no score is defined.
C7_TotalUndefinedIffNoScore ==
    \A k \in 1..Len(summary) :
        LET row == summary[k]
            scores == ScoresOf(row)
        IN  /\ ~IsFinite(row.totalScore) <=> NoneDefined(scores)
            /\ IsFinite(row.totalScore) =>
                row.totalScore = WeightedMean(scores, options.weights)
            /\ IsExampleRow(row) => row.totalScore = Rat(275, 4)

\* C7, amended: the total is the weighted mean over the defined scores (77.5
\* in the example) and is undefined exactly when the weights of the defined
\* scores sum to 0, as they do when no score is defined.
C7_TotalIsWeightedMean ==
    \A k \in 1..Len(summary) :
        LET row == summary[k]
            scores == ScoresOf(row)
            active == DefinedWeight(scores, options.weights)
        IN  /\ ~IsFinite(row.totalScore) <=> active = Num(0)
            /\ NoneDefined(scores) => ~IsFinite(row.totalScore)
            /\ active # Num(0) =>
                row.totalScore = RDiv(DefinedProduct(scores, options.weights), active)
            /\ IsExampleRow(row) => row.totalScore = Rat(155, 2)

C7_Witness ==
    /\ pc = "done"
    /\ \E k \in 1..Len(summary) : IsExampleRow(summary[k])

\* the weight a second run gives to one criterion
OtherWeight(weight) == RAdd(weight, Num(50))

RowOfProvider(rows, providerId) ==
    rows[CHOOSE k \in 1..Len(rows) : rows[k].providerId = providerId]

\* the total of a row were its missing criterion scored 0
TotalWithZero(scores, weights, key) ==
    WeightedMean([scores EXCEPT ![key] = Num(0)], weights)

\* the same run with another weight for one criterion leaves the total of every
\* provider that has no score for that criterion as it is
IndependentOfMissingWeight ==
    \A key \in Keys :
        (\E k \in 1..Len(summary) : ~IsFinite(ScoresOf(summary[k])[key])) =>
            LET second == summarizeProviderResults(sampleResults, providers,
                              [options.weights EXCEPT
                                  ![key] = OtherWeight(options.weights[key])])
            IN  \A k \in 1..Len(summary) :
                    ~IsFinite(ScoresOf(summary[k])[key]) =>
                        RowOfProvider(second, summary[k].providerId).totalScore
                            = summary[k].totalScore

\* C8, as claimed: the weight of a criterion a provider has no score for does
\* not change its total, which is the weighted mean of its defined scores and
\* differs from the total it would get were the missing criterion scored 0.
C8_MissingNeverEqualsZero ==
    pc = "done" =>
        /\ IndependentOfMissingWeight
        /\ \A k \in 1..Len(summary), key \in Keys :
            LET row == summary[k]
                scores == ScoresOf(row)
            IN  ~IsFinite(scores[key]) =>
                    /\ row.totalScore = WeightedMean(scores, options.weights)
                    /\ row.totalScore # TotalWithZero(scores, options.weights, key)

\* C8, amended: ... and differs from the total it would get were the missing
\* criterion scored 0 whenever that criterion's weight is not 0 and the
\* provider's total is defined and not 0.
C8_MissingIsNotZero ==
    pc = "done" =>
        /\ IndependentOfMissingWeight
        /\ \A k \in 1..Len(summary), key \in Keys :
            LET row == summary[k]
                scores == ScoresOf(row)
            IN  ~IsFinite(scores[key]) =>
                    /\ row.totalScore = WeightedMean(scores, options.weights)
                    /\ (/\ options.weights[key] # Num(0)
                        /\ IsFinite(row.totalScore)
                        /\ row.totalScore # Num(0))
                       => row.totalScore # TotalWithZero(scores, options.weights, key)

C8_Witness ==
    /\ pc = "done"
    /\ \E k \in 1..Len(summary) :
        /\ ~IsFinite(summary[k].costScore)
        /\ IsFinite(summary[k].accuracyScore)
        /\ IsFinite(summary[k].totalScore)
        /\ summary[k].totalScore # Num(0)
        /\ options.weights.cost # Num(0)

\* C9: every defined criterion score and every defined total lies in 0..100.
C9_ScoresInRange ==
    \A k \in 1..Len(summary) :
        /\ InRange(summary[k].accuracyScore)
        /\ InRange(summary[k].latencyScore)
        /\ InRange(summary[k].costScore)
        /\ InRange(summary[k].dxScore)
        /\ InRange(summary[k].totalScore)

\* the place of a provider in the provider config
ConfigIndex(providerId) ==
    CHOOSE k \in 1..Len(providersFile.items) : providersFile.items[k].id = providerId

\* C10: the summary lists the enabled providers by total descending, the
\* undefined totals last, equal totals by accuracy descending, and providers
\* equal on both in the order of the provider config.
C10_RankedByTotal ==
    pc = "done" =>
        /\ Len(summary) = Len(ConfiguredProviders)
        /\ \A a \in 1..Len(ConfiguredProviders) :
            \E k \in 1..Len(summary) : summary[k].providerId = ConfiguredProviders[a].id
        /\ \A i \in 1..Len(summary), j \in 1..Len(summary) :
            i < j =>
                LET x == summary[i]
                    y == summary[j]
                IN  /\ IsFinite(y.totalScore) => IsFinite(x.totalScore)
                    /\ IsFinite(x.totalScore) /\ IsFinite(y.totalScore) =>
                        RLeq(y.totalScore, x.totalScore)
                    /\ (/\ x.totalScore = y.totalScore
                        /\ IsFinite(x.accuracyScore) /\ IsFinite(y.accuracyScore))
                       => RLeq(y.accuracyScore, x.accuracyScore)
                    /\ (x.totalScore = y.totalScore /\ x.accuracyScore = y.accuracyScore)
                       => ConfigIndex(x.providerId) < ConfigIndex(y.providerId)

-----------------------------------------------------------------------------
(* Properties of the criterion scores and the aggregates *)

\* the configured provider a summary row is about
ProviderOf(row) ==
    providers[CHOOSE k \in 1..Len(providers) : providers[k].id = row.providerId]

\* the positive costs supplied for the providers of the run
PositiveCosts ==
    {providers[k].costPerHourUsd : k \in
        {j \in 1..Len(providers) :
            /\ IsFinite(providers[j].costPerHourUsd)
            /\ RLess(Num(0), providers[j].costPerHourUsd)}}

LowestPositiveCost ==
    CHOOSE c \in PositiveCosts : \A d \in PositiveCosts : RLeq(c, d)

AnyFreeProvider ==
    \E k \in 1..Len(providers) : providers[k].costPerHourUsd = Num(0)

\* C11: a provider of cost 0 has cost score 100; with a provider of cost 0 in
\* the run every provider of positive cost has cost score 0; otherwise one of
\* positive cost has clamp(lowest positive cost / its cost * 100, 0, 100), the
\* cheapest 100; a provider with no cost has no cost score.
C11_CostScore ==
    \A k \in 1..Len(summary) :
        LET row == summary[k]
            cost == ProviderOf(row).costPerHourUsd
        IN  /\ ~IsFinite(cost) => ~IsFinite(row.costScore)
            /\ cost = Num(0) => row.costScore = Num(100)
            /\ (IsFinite(cost) /\ RLess(Num(0), cost) /\ AnyFreeProvider)
               => row.costScore = Num(0)
            /\ (IsFinite(cost) /\ RLess(Num(0), cost) /\ ~AnyFreeProvider)
               => /\ row.costScore =
                        clamp(RMul(RDiv(LowestPositiveCost, cost), Num(100)),
                              Num(0), Num(100))
                  /\ cost = LowestPositiveCost => row.costScore = Num(100)

\* costs {0, 5, 10}: the free provider scores 100, the other two 0
C11_Witness ==
    /\ pc = "done"
    /\ \E i, j, k \in 1..Len(summary) :
        /\ ProviderOf(summary[i]).costPerHourUsd = Num(0)
        /\ summary[i].costScore = Num(100)
        /\ ProviderOf(summary[j]).costPerHourUsd = Num(5)
        /\ summary[j].costScore = Num(0)
        /\ ProviderOf(summary[k]).costPerHourUsd = Num(10)
        /\ summary[k].costScore = Num(0)

\* the defined mean latencies of the run's providers
MeanLatencies ==
    {summary[k].avgLatencyMs : k \in {j \in 1..Len(summary) :
                                        IsFinite(summary[j].avgLatencyMs)}}

BestMeanLatency ==
    CHOOSE b \in MeanLatencies : \A m \in MeanLatencies : RLeq(b, m)

\* C12: the latency score is clamp(best mean latency / own mean latency * 100,
\* 0, 100), the best being the least mean latency of the run's providers, and
\* is undefined exactly when the own mean latency is zero or undefined.
C12_LatencyScore ==
    \A k \in 1..Len(summary) :
        LET row == summary[k]
            own == row.avgLatencyMs
        IN  /\ ~IsFinite(row.latencyScore) <=> (~IsFinite(own) \/ own = Num(0))
            /\ IsFinite(row.latencyScore) =>
                row.latencyScore =
                    clamp(RMul(RDiv(BestMeanLatency, own), Num(100)), Num(0), Num(100))

\* mean latencies 3 ms and 5 ms score 100 and 60, a provider without a
\* successful sample has no latency score
C12_Witness ==
    /\ pc = "done"
    /\ \E i, j, k \in 1..Len(summary) :
        /\ summary[i].avgLatencyMs = Num(3) /\ summary[i].latencyScore = Num(100)
        /\ summary[j].avgLatencyMs = Num(5) /\ summary[j].latencyScore = Num(60)
        /\ summary[k].okCount = 0 /\ ~IsFinite(summary[k].latencyScore)

\* the provider has no result of status ok
NoSuccess(providerId) ==
    \A k \in 1..Len(sampleResults) :
        sampleResults[k].providerId = providerId => sampleResults[k].status # "ok"

\* C13: the accuracy score is clamp((1 - mean WER) * 100, 0, 100), so 0 and
\* never negative for a mean WER above 1; a provider with no successful sample
\* has no mean WER, median WER, mean CER or mean latency, and no accuracy or
\* latency score.
C13_AccuracyScore ==
    \A k \in 1..Len(summary) :
        LET row == summary[k]
        IN  /\ IsFinite(row.avgWer) =>
                /\ row.accuracyScore =
                      clamp(RMul(RSub(Num(1), row.avgWer), Num(100)), Num(0), Num(100))
                /\ RLess(Num(1), row.avgWer) => row.accuracyScore = Num(0)
            /\ NoSuccess(row.providerId) =>
                /\ ~IsFinite(row.avgWer) /\ ~IsFinite(row.medianWer)
                /\ ~IsFinite(row.avgCer) /\ ~IsFinite(row.avgLatencyMs)
                /\ ~IsFinite(row.accuracyScore) /\ ~IsFinite(row.latencyScore)

\* one provider with a mean WER of 6/5 and accuracy score 0, one with no
\* successful sample
C13_Witness ==
    /\ pc = "done"
    /\ \E i, j \in 1..Len(summary) :
        /\ summary[i].avgWer = Rat(6, 5) /\ summary[i].accuracyScore = Num(0)
        /\ NoSuccess(summary[j].providerId) /\ summary[j].totalSamples > 0

\* the results of one provider with one status, in the order of the run
ResultsWith(providerId, status) ==
    LET Wanted(r) == r.providerId = providerId /\ r.status = status
    IN  SelectSeq(sampleResults, Wanted)

\* C14: a failed result counts in totalSamples and errorCount and lowers
\* successRatePct, and adds nothing to avgWer, medianWer, avgCer, avgLatencyMs
\* and p90LatencyMs, which are taken over the ok results only.
C14_FailuresAreCountedNotScored ==
    \A k \in 1..Len(summary) :
        LET row == summary[k]
            ok == ResultsWith(row.providerId, "ok")
            failed == ResultsWith(row.providerId, "error")
            Wer(r) == r.wer
            Cer(r) == r.cer
            Latency(r) == r.latencyMs
        IN  /\ row.totalSamples = Len(ok) + Len(failed)
            /\ row.okCount = Len(ok)
            /\ row.errorCount = Len(failed)
            /\ row.successRatePct = Rat(Len(ok) * 100, Len(ok) + Len(failed))
            /\ Len(failed) > 0 => RLess(row.successRatePct, Num(100))
            /\ row.avgWer = mean(MapSeq(ok, Wer))
            /\ row.medianWer = percentile(MapSeq(ok, Wer), 50)
            /\ row.avgCer = mean(MapSeq(ok, Cer))
            /\ row.avgLatencyMs = mean(MapSeq(ok, Latency))
            /\ row.p90LatencyMs = percentile(MapSeq(ok, Latency), 90)

\* a command provider with one transcript and one AudioFileNotFound, which took
\* another time than the successful call
C14_Witness ==
    /\ pc = "done"
    /\ \E k \in 1..Len(summary) :
        LET ok == ResultsWith(summary[k].providerId, "ok")
            failed == ResultsWith(summary[k].providerId, "error")
        IN  /\ Len(ok) = 1 /\ Len(failed) = 1
            /\ failed[1].error = StrId("AudioFileNotFound")
            /\ failed[1].latencyMs # ok[1].latencyMs
            /\ summary[k].errorCount = 1
            /\ summary[k].successRatePct = Num(50)
            /\ summary[k].avgLatencyMs = ok[1].latencyMs

-----------------------------------------------------------------------------
(* Properties of the error rates *)

Returned(fn) == unit.fn = fn /\ unit.done

\* the rate of two token sequences as the contract gives it
RateOf(refTokens, hypTokens) ==
    IF Len(refTokens) = 0
    THEN (IF Len(hypTokens) = 0 THEN Num(0) ELSE Num(1))
    ELSE Rat(levenshteinDistance(refTokens, hypTokens), Len(refTokens))

\* C15: the word error rate is 0 for no reference word and no hypothesis word,
\* 1 for no reference word and some hypothesis word, and else
\* distance / number of reference words, not clamped: above 1 for a hypothesis
\* of more than twice the reference's words.  The character error rate is the
\* same over characters.
C15_ErrorRate ==
    /\ Returned("computeWordErrorRate") =>
        LET refWords == tokenizeWords(unit.args[1])
            hypWords == tokenizeWords(unit.args[2])
        IN  /\ unit.returned = RateOf(refWords, hypWords)
            /\ (Len(refWords) > 0 /\ Len(hypWords) > 2 * Len(refWords))
               => RLess(Num(1), unit.returned)
    /\ Returned("computeCharacterErrorRate") =>
        LET refChars == tokenizeChars(unit.args[1])
            hypChars == tokenizeChars(unit.args[2])
        IN  /\ unit.returned = RateOf(refChars, hypChars)
            /\ (Len(refChars) > 0 /\ Len(hypChars) > 2 * Len(refChars))
               => RLess(Num(1), unit.returned)

\* two reference words against six hypothesis words: a rate of 3
C15_Witness ==
    /\ Returned("computeWordErrorRate")
    /\ unit.args = <<RefShort, HypLong>>
    /\ unit.returned = Num(3)

\* C16: both rates are 0 for a text against itself, and for any reference and
\* hypothesis that normalize to the same string.
C16_EquivalentTextsScoreZero ==
    (Returned("computeWordErrorRate") \/ Returned("computeCharacterErrorRate")) =>
        /\ unit.args[1] = unit.args[2] => unit.returned = Num(0)
        /\ normalizeTranscript(unit.args[1]) = normalizeTranscript(unit.args[2])
           => unit.returned = Num(0)

\* "a b c d e" against "A b, <tab>c d' e.": case, punctuation, apostrophe and
\* whitespace differ, the word error rate is 0
C16_Witness ==
    /\ Returned("computeWordErrorRate")
    /\ unit.args = <<RefFive, HypSame>>
    /\ unit.returned = Num(0)

-----------------------------------------------------------------------------
(* Properties of the edit distance *)

\* C17: the distance from source to target is the distance from target to
\* source, an empty sequence on either side included.
C17_DistanceIsSymmetric ==
    Returned("levenshteinDistance") =>
        unit.returned = levenshteinDistance(unit.args[2], unit.args[1])

C17_Witness ==
    /\ Returned("levenshteinDistance")
    /\ unit.args = <<<<>>, <<"a", "b">>>>
    /\ unit.returned = 2

\* the sequences one insertion, deletion or substitution of a token away
OneEdit(s) ==
    {SubSeq(s, 1, i - 1) \o SubSeq(s, i + 1, Len(s)) : i \in 1..Len(s)}
    \cup {[s EXCEPT ![i] = t] : i \in 1..Len(s), t \in TokenAlphabet}
    \cup (IF Len(s) > MaxTokens THEN {}
          ELSE {SubSeq(s, 1, i) \o <<t>> \o SubSeq(s, i + 1, Len(s)) :
                    i \in 0..Len(s), t \in TokenAlphabet})

\* the least number of edits that turn source into target
RECURSIVE EditsFrom(_, _, _)
EditsFrom(reached, target, k) ==
    IF target \in reached THEN k
    ELSE EditsFrom(reached \cup UNION {OneEdit(t) : t \in reached}, target, k + 1)

EditDistance(source, target) == EditsFrom({source}, target, 0)

\* C18: the two-row computation returns the least number of unit-cost
\* insertions, deletions and substitutions of one token that turn source into
\* target: 0 for equal sequences, the length of target for an empty source, a
\* natural number no larger than the longer of the two.
C18_DistanceIsLevenshtein ==
    Returned("levenshteinDistance") =>
        LET source == unit.args[1]
            target == unit.args[2]
        IN  /\ unit.returned = EditDistance(source, target)
            /\ source = target => unit.returned = 0
            /\ Len(source) = 0 => unit.returned = Len(target)
            /\ unit.returned \in Nat
            /\ unit.returned <= (IF Len(source) > Len(target)
                                 THEN Len(source) ELSE Len(target))

\* "a b c" into "b c a": delete the first token, insert it at the end
C18_Witness ==
    /\ Returned("levenshteinDistance")
    /\ unit.args = <<(<<"a", "b", "c">>), <<"b", "c", "a">>>>
    /\ unit.returned = 2

-----------------------------------------------------------------------------
(* Properties of the statistics *)

\* the sum of a list of finite numbers
RECURSIVE Total(_)
Total(values) ==
    IF Len(values) = 0 THEN Num(0)
    ELSE RAdd(Total(SubSeq(values, 1, Len(values) - 1)), values[Len(values)])

Count(values, x) == Cardinality({k \in 1..Len(values) : values[k] = x})

\* the list in ascending order: the same entries as often, none before a smaller
Ascending(values) ==
    LET entries == {values[k] : k \in 1..Len(values)}
    IN  CHOOSE s \in [1..Len(values) -> entries] :
            /\ \A x \in entries : Count(s, x) = Count(values, x)
            /\ \A k \in 1..(Len(values) - 1) : RLeq(s[k], s[k + 1])

\* the value at the fractional index p/100 * (n - 1) of the ascending list,
\* interpolated linearly between the ranks below and above it
Interpolated(values, p) ==
    LET sorted == Ascending(values)
        below == (p * (Len(values) - 1)) \div 100
        above == IF (p * (Len(values) - 1)) % 100 = 0 THEN below ELSE below + 1
        fraction == Rat((p * (Len(values) - 1)) % 100, 100)
    IN  RAdd(sorted[below + 1],
             RMul(RSub(sorted[above + 1], sorted[below + 1]), fraction))

\* C20: percentile returns no value for an empty list, the element of a list
\* of one, and else the linear interpolation at index p/100 * (n - 1) of the
\* ascending list, which lies between the least and the greatest entry (5/2
\* for 1, 2, 3, 4 at 50); the caller's list is left in its order.
C20_PercentileInterpolates ==
    Returned("percentile") =>
        LET values == unit.args[1]
            p == unit.args[2]
            value == unit.returned.value
        IN  /\ Len(values) = 0 => value = Null
            /\ Len(values) = 1 => value = values[1]
            /\ Len(values) > 0 =>
                /\ value = Interpolated(values, p)
                /\ \E k \in 1..Len(values) : RLeq(values[k], value)
                /\ \E k \in 1..Len(values) : RLeq(value, values[k])
            /\ (values = OneToFour /\ p = 50) => value = Rat(5, 2)
            /\ unit.returned.values = values

\* the median of 4, 3, 2, 1 is 5/2 and the list is still 4, 3, 2, 1
C20_Witness ==
    /\ Returned("percentile")
    /\ unit.args = <<FourToOne, 50>>
    /\ unit.returned = [value |-> Rat(5, 2), values |-> FourToOne]

-----------------------------------------------------------------------------
(* Properties of the provider adapters *)

\* the provider and the sample of the k-th result
ProviderAt(k) == providers[calls[k][1]]
SampleAt(k) == samples[calls[k][2]]

ValidSample(sample) ==
    /\ ~sample.isNull
    /\ sample.id.t = "string" /\ sample.id.v # ""
    /\ sample.reference.t = "string"

\* sample.hypotheses[field], field the configured one or else the provider's id
HypothesisFor(provider, sample) ==
    LET field == IF provider.field.t = "string" THEN provider.field.v
                 ELSE provider.id.v
    IN  IF field \in DOMAIN sample.hypotheses
        THEN sample.hypotheses[field] ELSE UndefText

\* C21, as claimed: a dataset-hypothesis call succeeds with exactly the value
\* of sample.hypotheses[field] whenever that value is a string, with or
\* without an audioFile, and fails with MissingHypothesis when it is absent
\* or not a string.
C21_HypothesisLookup ==
    \A k \in 1..Len(sampleResults) :
        (ProviderAt(k).type = StrId("datasetHypothesis") /\ ValidSample(SampleAt(k)))
        => LET value == HypothesisFor(ProviderAt(k), SampleAt(k))
               r == sampleResults[k]
           IN  IF value.t = "string"
               THEN r.status = "ok" /\ r.transcript = value
               ELSE r.status = "error" /\ r.error = StrId("MissingHypothesis")

\* C22: whatever the provider type, a sample whose id is missing or not a
\* string, or whose reference is not a string, makes the call fail with
\* InvalidSample and with no other failure, and nothing is requested for it.
C22_SampleValidatedBeforeDispatch ==
    \A k \in 1..Len(sampleResults) :
        ~ValidSample(SampleAt(k)) =>
            /\ sampleResults[k].status = "error"
            /\ sampleResults[k].error = StrId("InvalidSample")
            /\ \A j \in 1..Len(requests) : requests[j] # calls[k]

\* a sample whose id is a number, given to a provider of an unsupported type
C22_Witness ==
    \E k \in 1..Len(sampleResults) :
        /\ SampleAt(k) = SNoId
        /\ ProviderAt(k) = Unsupported
        /\ sampleResults[k].error = StrId("InvalidSample")

NeedsAudio(provider) ==
    provider.type.t = "string" /\ provider.type.v \in RemoteTypes \cup {"command"}

\* C23: a call of a command or remote provider whose audio file does not
\* exist fails with AudioFileNotFound, whether or not the command or the
\* credential is missing too, with no process spawned and no request issued.
C23_AudioCheckedBeforeIO ==
    \A k \in 1..Len(sampleResults) :
        (/\ NeedsAudio(ProviderAt(k))
         /\ ValidSample(SampleAt(k))
         /\ SampleAt(k).audioFile.t = "string"
         /\ ~io[k].env.audioExists)
        => /\ sampleResults[k].status = "error"
           /\ sampleResults[k].error = StrId("AudioFileNotFound")
           /\ io[k].spawned = 0
           /\ \A j \in 1..Len(requests) : requests[j] # calls[k]

\* a deepgram call with neither the audio file nor the credential
C23_Witness ==
    \E k \in 1..Len(sampleResults) :
        /\ ProviderAt(k) = Deepgram
        /\ ~io[k].env.audioExists /\ ~io[k].env.apiKey
        /\ sampleResults[k].error = StrId("AudioFileNotFound")
        /\ io[k].spawned = 0

\* ---------------------------------------------------------------------------
\* Properties of the timeouts of the adapters
\* ---------------------------------------------------------------------------

\* C24: a remote call that has not completed, the reading of the response
\* body included, when timeoutMs has elapsed is settled with a failure: no
\* remote call is pending after its timeout.
C24_RemoteCallSettlesByTimeout ==
    (call.kind = "remote" /\ call.clock > call.timeoutMs)
    => call.phase = "settled" /\ ~call.outcome.ok

ExitOutcome(env) ==
    IF ~env.success THEN "CommandFailed"
    ELSE IF Len(Trim(env.output)) = 0 THEN "EmptyOutput"
    ELSE "ok"

\* C25: a command call whose process has not closed when timeoutMs has
\* elapsed is settled at the timeout with the error Timeout, whether or not
\* the process exits later; a process that closes before the timeout gives the
\* outcome of its exit code and output, and the timer does not fire afterwards
\* nor change that outcome.
C25_CommandTimeout ==
    call.kind = "command" =>
        /\ call.clock > call.timeoutMs => call.phase = "settled"
        /\ call.timer = "fired"
           => /\ call.outcome = Fail("Timeout", 0, 1)
              /\ call.settledAt = call.timeoutMs
        /\ (call.closedAt # -1 /\ call.closedAt < call.timeoutMs
            /\ call.outcome.error # "SpawnFailed")
           => /\ call.timer = "cleared"
              /\ call.settledAt = call.closedAt
              /\ IF ExitOutcome(call.exit) = "ok"
                 THEN call.outcome = Ok(Trim(call.exit.output), 0, 1)
                 ELSE call.outcome = Fail(ExitOutcome(call.exit), 0, 1)

\* a child that the timer killed closes after the call has failed
C25_Witness ==
    /\ call.kind = "command" /\ call.timer = "fired"
    /\ call.process = "closed" /\ call.closedAt > call.settledAt
    /\ call.outcome = Fail("Timeout", 0, 1)

\* a child that printed a transcript closed before the timeout, and the
\* timeout has passed since
ClosedInTime ==
    /\ call.kind = "command" /\ call.outcome.ok
    /\ call.closedAt < call.timeoutMs /\ call.clock > call.timeoutMs

\* ---------------------------------------------------------------------------
\* The numbers of the language are IEEE 754 binary64 values.  The sums and
\* quotients of mean are computed here bit by bit, rounded to nearest with
\* ties to even, for positive values and zero far from the ends of the
\* exponent range: a value is m * 2^e with m a sequence of SignificandBits
\* bits, most significant first and leading bit 1; zero has no bits.
\* ---------------------------------------------------------------------------
SignificandBits == 53

Zeros(n) == [i \in 1..n |-> 0]

Zero64 == [m |-> <<>>, e |-> 0]

StripZeros(s) ==
    LET ones == {i \in 1..Len(s) : s[i] = 1}
    IN  IF ones = {} THEN <<>>
        ELSE SubSeq(s, CHOOSE i \in ones : \A j \in ones : i <= j, Len(s))

\* s + 1, one bit longer when every bit of s is 1
Increment(s) ==
    LET zeros == {i \in 1..Len(s) : s[i] = 0}
    IN  IF zeros = {} THEN <<1>> \o Zeros(Len(s))
        ELSE LET k == CHOOSE i \in zeros : \A j \in zeros : j <= i
             IN  [i \in 1..Len(s) |->
                     IF i < k THEN s[i] ELSE IF i = k THEN 1 ELSE 0]

\* a + b for two sequences of the same length; the sum is one bit longer.
\* There is a carry out of place j, counted from the last bit, when some place
\* k <= j has both bits set and every place between has at least one.
AddBits(a, b) ==
    LET n == Len(a)
        A(j) == a[n + 1 - j]
        B(j) == b[n + 1 - j]
        Carry(j) == \E k \in 1..j :
                        /\ A(k) + B(k) = 2
                        /\ \A i \in (k + 1)..j : A(i) + B(i) >= 1
        C(j) == IF Carry(j) THEN 1 ELSE 0
    IN  [i \in 1..(n + 1) |->
            IF i = 1 THEN C(n)
            ELSE (a[i - 1] + b[i - 1] + C(n + 1 - i)) % 2]

\* the number with at most eight bits s
RECURSIVE BitsValue(_)
BitsValue(s) ==
    IF s = <<>> THEN 0
    ELSE 2 * BitsValue(SubSeq(s, 1, Len(s) - 1)) + s[Len(s)]

\* quotient and remainder of the number with these bits by an integer in
\* 1..15, by long division; the remainders are carried over groups of eight
\* bits
DivBits(s, n) ==
    LET remAt[c \in 0..(Len(s) \div 8)] ==
            IF c = 0 THEN 0
            ELSE (256 * remAt[c - 1]
                  + BitsValue(SubSeq(s, 8 * c - 7, 8 * c))) % n
        RemBefore(i) ==
            LET c == (i - 1) \div 8
            IN  (2 ^ (i - 1 - 8 * c) * remAt[c]
                 + BitsValue(SubSeq(s, 8 * c + 1, i - 1))) % n
    IN  [q |-> [i \in 1..Len(s) |-> (2 * RemBefore(i) + s[i]) \div n],
         rem |-> RemBefore(Len(s) + 1)]

\* the binary64 value nearest to bits * 2^e, plus a rest below the last bit
\* when sticky, ties to even
Round64(bits, e, sticky) ==
    LET s == StripZeros(bits)
        len == Len(s)
        P == SignificandBits
    IN  IF len = 0 THEN Zero64
        ELSE IF len <= P THEN [m |-> s \o Zeros(P - len), e |-> e - (P - len)]
        ELSE LET keep == SubSeq(s, 1, P)
                 rest == sticky \/ \E i \in (P + 2)..len : s[i] = 1
                 up == s[P + 1] = 1 /\ (rest \/ keep[P] = 1)
                 r == IF up THEN Increment(keep) ELSE keep
             IN  IF Len(r) > P THEN [m |-> SubSeq(r, 1, P), e |-> e + len - P + 1]
                 ELSE [m |-> r, e |-> e + len - P]

\* x + y
Add64(x, y) ==
    IF x.m = <<>> THEN y
    ELSE IF y.m = <<>> THEN x
    ELSE LET e == IF x.e < y.e THEN x.e ELSE y.e
             a == x.m \o Zeros(x.e - e)
             b == y.m \o Zeros(y.e - e)
             n == IF Len(a) < Len(b) THEN Len(b) ELSE Len(a)
         IN  Round64(AddBits(Zeros(n - Len(a)) \o a, Zeros(n - Len(b)) \o b),
                     e, FALSE)

\* x / n for an integer n in 1..15: eight more quotient bits than x has
\* leave a guard bit, and the remainder tells whether anything is below it
Div64(x, n) ==
    LET d == DivBits(x.m \o Zeros(8), n)
    IN  Round64(d.q, x.e - 8, d.rem # 0)

\* an integer in 0..15
Int64(k) ==
    Round64(<<(k \div 8) % 2, (k \div 4) % 2, (k \div 2) % 2, k % 2>>, 0, FALSE)

\* values.reduce((sum, value) => sum + value, 0)
RECURSIVE Sum64(_)
Sum64(values) ==
    IF values = <<>> THEN Zero64
    ELSE Add64(Sum64(SubSeq(values, 1, Len(values) - 1)), values[Len(values)])

\* mean, on binary64 values; null for no values
mean64(values) ==
    IF Len(values) = 0 THEN [m |-> <<>>, e |-> -1]
    ELSE Div64(Sum64(values), Len(values))

\* the error rate of a row: an edit distance over a reference length
Rate64(rate) == Div64(Int64(rate[1]), rate[2])

\* ---------------------------------------------------------------------------
\* The average error rate of one provider's rows, computed from the rows in
\* the order of the result collection and in another order of the same rows
\* ---------------------------------------------------------------------------
MaxRows == 3

\* word error rates of ok rows: edit distance and reference length
Rates == {<<d, 10>> : d \in 0..3}

RowOrders == UNION {[1..k -> Rates] : k \in 0..MaxRows}

InOrder(rows, p) == [i \in 1..Len(rows) |-> rows[p[i]]]

\* avgWer of the summary row over these rows, as binary64 and exactly
avgWer64(rows) == mean64([i \in 1..Len(rows) |-> Rate64(rows[i])])

avgWerExact(rows) == mean([i \in 1..Len(rows) |-> Rat(rows[i][1], rows[i][2])])

OrderInit ==
    /\ OutsideMain
    /\ call = NoAdapterCall
    /\ hook = NoHook
    /\ \E rows \in RowOrders : unit = Call("summarizeProviderResults", <<rows>>)

ApplySummaryInTwoOrders ==
    /\ unit.fn = "summarizeProviderResults" /\ ~unit.done
    /\ \E p \in Permutations(1..Len(unit.args[1])) :
           LET rows == unit.args[1]
               other == InOrder(rows, p)
           IN  Returns([other |-> other,
                        avgWer |-> avgWer64(rows),
                        avgWerOther |-> avgWer64(other),
                        exact |-> avgWerExact(rows),
                        exactOther |-> avgWerExact(other)])

OrderNext == ApplySummaryInTwoOrders

OrderSpec == OrderInit /\ [][OrderNext]_vars

\* ---------------------------------------------------------------------------
\* Properties of the summary and of the result collection
\* ---------------------------------------------------------------------------

\* C26: the summary does not depend on the order of the result collection:
\* the average error rate of a provider computed from its rows in any other
\* order is the same value.
C26_SameAverageInAnyOrder ==
    (unit.fn = "summarizeProviderResults" /\ unit.done)
    => unit.returned.avgWer = unit.returned.avgWerOther

\* with exact arithmetic the averages of the two orders agree
ExactAverageInAnyOrder ==
    (unit.fn = "summarizeProviderResults" /\ unit.done)
    => unit.returned.exact = unit.returned.exactOther

\* with exact arithmetic the whole summary, ranking included, is the same for
\* every order of the collected results
ExactSummaryInAnyOrder ==
    pc \in {"report", "done"} =>
        \A p \in Permutations(1..Len(sampleResults)) :
            summarizeProviderResults(InOrder(sampleResults, p), providers,
                                     options.weights) = summary

\* (p, s) is not after (q, t) in the order of the two loops
NotAfter(p, s, q, t) == p < q \/ (p = q /\ s <= t)

AppendsOneForCurrentPair ==
    LET n == Len(sampleResults)
    IN  /\ Len(sampleResults') \in {n, n + 1}
        /\ SubSeq(sampleResults', 1, n) = sampleResults
        /\ Len(sampleResults') = n + 1
           => /\ pc = "sample"
              /\ sampleResults'[n + 1].providerId = providers[pi].id
              /\ sampleResults'[n + 1].sampleId = samples[si].id
              /\ <<pi', si'>> # <<pi, si>>
        /\ (pc = "sample" /\ pc' # "failed") => Len(sampleResults') = n + 1
        /\ NotAfter(pi, si, pi', si')

\* C27: the result collection is append-only and write-once: every step
\* leaves the results already collected as they are; a pass of the inner loop
\* that completes appends exactly one result, for the current pair and at the
\* end, and moves on to a later pair; no other step, the summary computation
\* included, changes the collection.
C27_AppendOnly == [][AppendsOneForCurrentPair]_vars

\* results of two providers are collected and the summary has been computed
C27_Witness ==
    /\ pc = "done"
    /\ Len(sampleResults) >= 3
    /\ calls[1][1] # calls[3][1]
    /\ summary # <<>>

\* ---------------------------------------------------------------------------
\* useVoiceDraft: one mounted hook and its page.  Times are milliseconds, levels
\* are hundredths, a text is its sequence of words.  A callback sees the React
\* state of the render that created it: a promise callback and a tick loop keep
\* the listening and draftText values of the render in which start was called.
\* Every event finds the component rendered with the current state.
\* ---------------------------------------------------------------------------
MaxTicks == 4
MaxStarts == 2
MaxAutoStops == 2
MaxWords == 1

\* the options of the Quick Start, with times in steps of the clock
HookOptions ==
    {[canTranscribe |-> c, sampleIntervalMs |-> 500, maxHistory |-> 2,
      finalizeDelayMs |-> 500,
      noiseGate |-> [activationThreshold |-> 25, minActiveLevel |-> 6],
      silence |-> [enabled |-> e, autoStopMs |-> 1000, minSpeechMs |-> 500,
                   minLevel |-> 6]] : c \in BOOLEAN, e \in BOOLEAN}

\* the level of a sample before the gate: quiet, low voice, speech
Levels == {0, 10, 50}

\* the first render
MountedHook(hookOptions) ==
    [mounted |-> TRUE, options |-> hookOptions, now |-> 500,
     listening |-> FALSE, waveform |-> <<>>, elapsed |-> 0, draftText |-> <<>>,
     rec |-> "none", stream |-> 0, analyser |-> FALSE, raf |-> 0,
     startTime |-> 0, lastSample |-> 0, waveformRef |-> <<>>,
     finalText |-> <<>>, interimText |-> <<>>, stopping |-> FALSE,
     activated |-> FALSE, firstSpeechMs |-> -1, lastActiveMs |-> 0,
     autoStopping |-> FALSE,
     loops |-> {}, ticked |-> {}, pendingMic |-> {}, timers |-> {},
     starts |-> 0, micRequests |-> 0, onErrors |-> 0, onAutoStops |-> <<>>,
     firstSpeechAt |-> -1, lastActiveAt |-> -1,
     unmounted |-> FALSE, recRef |-> 0, recs |-> {}, live |-> {},
     cancelled |-> FALSE]

\* the closure of the current render
Render(h) == [listening |-> h.listening, draftText |-> h.draftText]

notifyError(h) == [h EXCEPT !.onErrors = @ + 1]

\* cancelAnimationFrame reaches the loop that scheduled last, and the tracks
\* of the stream in streamRef are stopped
stopAudio(h) ==
    [h EXCEPT !.loops = {l \in @ : l.id # h.raf}, !.raf = 0,
              !.live = @ \ {h.stream},
              !.stream = 0, !.analyser = FALSE]

\* recRef.current?.stop(): the recognizer delivers what it has and ends
stopRecognizer(h) ==
    [h EXCEPT !.recs = {IF r.id = h.recRef /\ r.state = "running"
                        THEN [r EXCEPT !.state = "stopping"] ELSE r : r \in @}]

\* recRef.current?.abort(): the recognizer ends without a further result
abortRecognizer(h) ==
    [h EXCEPT !.recs = {IF r.id = h.recRef
                        THEN [r EXCEPT !.state = "aborting"] ELSE r : r \in @}]

resetSession(h, clearText) ==
    [h EXCEPT !.stopping = FALSE, !.autoStopping = FALSE, !.activated = FALSE,
              !.firstSpeechMs = -1, !.lastActiveMs = 0, !.waveformRef = <<>>,
              !.waveform = <<>>, !.elapsed = 0,
              !.firstSpeechAt = -1, !.lastActiveAt = -1,
              !.finalText = IF clearText THEN <<>> ELSE @,
              !.interimText = IF clearText THEN <<>> ELSE @,
              !.draftText = IF clearText THEN <<>> ELSE @]

\* what was the case when an auto-stop was decided
Facts(h) ==
    [enabled |-> h.options.silence.enabled, activated |-> h.activated,
     at |-> h.now, firstSpeechAt |-> h.firstSpeechAt,
     lastActiveAt |-> h.lastActiveAt]

\* options.onAutoStop?.(text), then the finally block
onAutoStop(h, text, facts) ==
    [h EXCEPT !.onAutoStops = Append(@, [text |-> text, facts |-> facts]),
              !.autoStopping = FALSE]

\* finalizeTranscript up to its await; closure is the render that made it
finalizeTranscript(h, closure, auto, facts) ==
    IF ~closure.listening \/ h.stopping
    THEN IF auto THEN onAutoStop(h, closure.draftText, facts) ELSE h
    ELSE [stopRecognizer(h) EXCEPT
                   !.stopping = TRUE,
                   !.rec = IF @ = "active" THEN "stopping" ELSE @,
                   !.timers = @ \cup {[due |-> h.now + h.options.finalizeDelayMs,
                                       auto |-> auto, facts |-> facts,
                                       lost |-> <<>>]}]

\* finalizeTranscript after the delay
finalizeAfterDelay(h, timer) ==
    LET text == h.finalText \o h.interimText
        released == resetSession(
                        stopAudio([abortRecognizer(h) EXCEPT
                                      !.rec = "none", !.recRef = 0,
                                      !.listening = FALSE,
                                      !.timers = @ \ {timer}]),
                        FALSE)
        done == [released EXCEPT !.draftText = text]
    IN  IF timer.auto THEN onAutoStop(done, text, timer.facts) ELSE done

\* the conditions of maybeAutoStop without the test of silence.enabled
ShouldAutoStopWhenDisabled(h, listening) ==
    /\ h.activated /\ ~h.autoStopping /\ listening
    /\ h.firstSpeechMs # -1
    /\ (h.now - h.startTime) - h.firstSpeechMs >= h.options.silence.minSpeechMs
    /\ (h.now - h.startTime) - h.lastActiveMs >= h.options.silence.autoStopMs

\* the conditions of maybeAutoStop; listening is the value in its closure
ShouldAutoStop(h, listening) ==
    /\ h.options.silence.enabled /\ h.activated /\ ~h.autoStopping /\ listening
    /\ h.firstSpeechMs # -1
    /\ (h.now - h.startTime) - h.firstSpeechMs >= h.options.silence.minSpeechMs
    /\ (h.now - h.startTime) - h.lastActiveMs >= h.options.silence.autoStopMs

maybeAutoStop(h, loop) ==
    IF ~ShouldAutoStop(h, loop.listening) THEN h
    ELSE finalizeTranscript([h EXCEPT !.autoStopping = TRUE], loop, TRUE, Facts(h))

\* Array.prototype.slice(start): a negative start counts from the end, and
\* -0 is 0, the start of the array
slice(values, start) ==
    LET from == IF start < 0
                THEN (IF Len(values) + start > 0 THEN Len(values) + start ELSE 0)
                ELSE (IF start < Len(values) THEN start ELSE Len(values))
    IN  SubSeq(values, from + 1, Len(values))

\* the sampling branch of tick
Sample(h, level) ==
    LET elapsedMs == h.now - h.startTime
        activates == ~h.activated /\ level > h.options.noiseGate.activationThreshold
        activated == h.activated \/ activates
        gated == IF ~activated THEN 0
                 ELSE IF level < h.options.noiseGate.minActiveLevel
                      THEN h.options.noiseGate.minActiveLevel ELSE level
        active == activated /\ gated > h.options.silence.minLevel
        pushed == Append(h.waveformRef, gated)
        kept == IF Len(pushed) > h.options.maxHistory
                THEN slice(pushed, 0 - h.options.maxHistory)
                ELSE pushed
    IN  [h EXCEPT !.lastSample = h.now, !.activated = activated,
                  !.firstSpeechMs = IF activates THEN elapsedMs ELSE @,
                  !.lastActiveMs = IF active THEN elapsedMs ELSE @,
                  !.firstSpeechAt = IF activates THEN h.now ELSE @,
                  !.lastActiveAt = IF active THEN h.now ELSE @,
                  !.waveformRef = kept, !.waveform = kept]

\* one animation frame of a loop
tick(h, loop, level) ==
    IF ~h.analyser THEN [h EXCEPT !.loops = @ \ {loop}]
    ELSE LET timed == [h EXCEPT !.elapsed = (h.now - h.startTime) \div 1000]
             sampled == IF h.now - h.lastSample >= h.options.sampleIntervalMs
                        THEN Sample(timed, level) ELSE timed
         IN  [maybeAutoStop(sampled, loop) EXCEPT !.raf = loop.id]

\* the stops that wait for their delay, each with the text of its session
\* that a start clears before the stop has read it
Lose(h) ==
    {[timer EXCEPT !.lost = IF @ = <<>> THEN h.finalText \o h.interimText ELSE @] :
        timer \in h.timers}

\* a start that resets and asks for the microphone whatever canTranscribe is
startUnchecked(h) ==
    LET reset == resetSession(
                     stopAudio([abortRecognizer(h) EXCEPT
                                   !.rec = IF @ = "none" THEN @ ELSE "aborted"]),
                     TRUE)
    IN  [reset EXCEPT !.starts = @ + 1, !.listening = TRUE,
                      !.cancelled = FALSE, !.timers = Lose(h),
                      !.micRequests = @ + 1,
                      !.pendingMic = @ \cup {[id |-> h.micRequests + 1]
                                             @@ Render(h)}]

start(h) ==
    IF ~h.options.canTranscribe THEN [notifyError(h) EXCEPT !.starts = @ + 1]
    ELSE LET reset == resetSession(
                          stopAudio([abortRecognizer(h) EXCEPT
                                        !.rec = IF @ = "none" THEN @
                                                ELSE "aborted"]),
                          TRUE)
         IN  [reset EXCEPT !.starts = @ + 1, !.listening = TRUE,
                           !.cancelled = FALSE, !.timers = Lose(h),
                           !.micRequests = @ + 1,
                           !.pendingMic = @ \cup {[id |-> h.micRequests + 1]
                                                  @@ Render(h)}]

\* the then branch of getUserMedia: the tracks of the stream are stopped, or
\* startAudioVisualization and startRecognition run with it
micGranted(h, p) ==
    IF h.stopping THEN [h EXCEPT !.pendingMic = @ \ {p}]
    ELSE [h EXCEPT !.pendingMic = @ \ {p}, !.stream = p.id, !.analyser = TRUE,
                   !.live = @ \cup {p.id},
                   !.startTime = h.now, !.lastSample = 0, !.waveformRef = <<>>,
                   !.loops = @ \cup {p}, !.raf = p.id, !.rec = "active",
                   !.recRef = p.id,
                   !.recs = @ \cup {[id |-> p.id, state |-> "running"]}]

cancel(h) ==
    resetSession(stopAudio([abortRecognizer(h) EXCEPT
                               !.stopping = TRUE, !.rec = "none", !.recRef = 0,
                               !.listening = FALSE, !.cancelled = TRUE]),
                 TRUE)

\* rec.onresult with one interim or one final chunk
onresult(h, kind) ==
    LET interim == IF kind = "interim" THEN <<"b">> ELSE <<>>
        final == IF kind = "final" THEN h.finalText \o <<"a">> ELSE h.finalText
    IN  [h EXCEPT !.finalText = final, !.interimText = interim,
                  !.draftText = final \o interim]

\* rec.onend of recognizer r: it is left ended while the hook is stopping and
\* is started again otherwise
onend(h, r) ==
    IF h.stopping THEN [h EXCEPT !.recs = @ \ {r}]
    ELSE [h EXCEPT !.recs = (@ \ {r}) \cup {[r EXCEPT !.state = "running"]}]

\* the cleanup of the effect, run when the component unmounts
unmount(h) ==
    stopAudio([abortRecognizer(h) EXCEPT
                  !.stopping = TRUE, !.unmounted = TRUE,
                  !.rec = IF @ = "none" THEN @ ELSE "aborted"])

HookInit ==
    /\ OutsideMain
    /\ unit = NoCall
    /\ call = NoAdapterCall
    /\ hook \in {MountedHook(o) : o \in HookOptions}

Start ==
    /\ ~hook.unmounted
    /\ hook.starts < MaxStarts
    /\ hook' = start(hook)
    /\ UNCHANGED <<mainVars, unit, call>>

MicGranted ==
    /\ \E p \in hook.pendingMic : hook' = micGranted(hook, p)
    /\ UNCHANGED <<mainVars, unit, call>>

MicDenied ==
    /\ \E p \in hook.pendingMic :
           hook' = notifyError([hook EXCEPT !.pendingMic = @ \ {p},
                                            !.listening = FALSE])
    /\ UNCHANGED <<mainVars, unit, call>>

\* a loop runs once in every step of the clock
Frame ==
    /\ Len(hook.onAutoStops) < MaxAutoStops
    /\ \E loop \in hook.loops, level \in Levels :
           /\ loop.id \notin hook.ticked
           /\ hook' = [tick(hook, loop, level) EXCEPT !.ticked = @ \cup {loop.id}]
    /\ UNCHANGED <<mainVars, unit, call>>

FinalizeTimer ==
    /\ \E timer \in hook.timers :
           /\ timer.due <= hook.now
           /\ hook' = finalizeAfterDelay(hook, timer)
    /\ UNCHANGED <<mainVars, unit, call>>

StopAndGetText ==
    /\ ~hook.unmounted
    /\ hook' = finalizeTranscript(hook, Render(hook), FALSE, Facts(hook))
    /\ UNCHANGED <<mainVars, unit, call>>

Cancel ==
    /\ ~hook.unmounted
    /\ hook' = cancel(hook)
    /\ UNCHANGED <<mainVars, unit, call>>

\* a recognizer that runs, or was stopped and has not ended, has a result
Result ==
    /\ \E r \in hook.recs, kind \in {"interim", "final"} :
           /\ r.state \in {"running", "stopping"}
           /\ kind = "final" => Len(hook.finalText) < MaxWords
           /\ hook' = onresult(hook, kind)
    /\ UNCHANGED <<mainVars, unit, call>>

\* a recognizer ends: after stop or abort, or by itself
End ==
    /\ \E r \in hook.recs : hook' = onend(hook, r)
    /\ UNCHANGED <<mainVars, unit, call>>

Unmount ==
    /\ ~hook.unmounted
    /\ hook' = unmount(hook)
    /\ UNCHANGED <<mainVars, unit, call>>

\* time passes; the animation frames of this step and a timer that is due
\* run first.  The clock counts up to 500 * MaxTicks and stays there: from
\* then on time passes unmeasured, and the timers still waiting become due.
Advance ==
    /\ \A timer \in hook.timers : hook.now < timer.due
    /\ Len(hook.onAutoStops) < MaxAutoStops
       => \A loop \in hook.loops : loop.id \in hook.ticked
    /\ IF hook.now < 500 * MaxTicks
       THEN hook' = [hook EXCEPT !.now = @ + 500, !.ticked = {}]
       ELSE hook' = [hook EXCEPT !.ticked = {},
                                 !.timers = {[timer EXCEPT !.due = hook.now] :
                                                 timer \in @}]
    /\ UNCHANGED <<mainVars, unit, call>>

HookNext ==
    \/ Start
    \/ MicGranted
    \/ MicDenied
    \/ Frame
    \/ FinalizeTimer
    \/ StopAndGetText
    \/ Cancel
    \/ Result
    \/ Advance

HookSpec == HookInit /\ [][HookNext]_vars

\* The sessions of a caller who keeps no history of the waveform, or one
\* sample of it, and leaves the stop to the user
HistoryOptions ==
    {[canTranscribe |-> TRUE, sampleIntervalMs |-> 500, maxHistory |-> m,
      finalizeDelayMs |-> 500,
      noiseGate |-> [activationThreshold |-> 25, minActiveLevel |-> 6],
      silence |-> [enabled |-> FALSE, autoStopMs |-> 1000, minSpeechMs |-> 500,
                   minLevel |-> 6]] : m \in {0, 1}}

HistoryInit ==
    /\ OutsideMain
    /\ unit = NoCall
    /\ call = NoAdapterCall
    /\ hook \in {MountedHook(o) : o \in HistoryOptions}

HistorySpec == HistoryInit /\ [][HookNext]_vars

\* The sessions of a component from mount to unmount, with recognizers that
\* end: the options are those of a caller who draws no waveform and leaves the
\* stop to the user, so that a state is the state of the session alone.
SessionOptions ==
    {[canTranscribe |-> TRUE, sampleIntervalMs |-> 5000, maxHistory |-> 2,
      finalizeDelayMs |-> 500,
      noiseGate |-> [activationThreshold |-> 25, minActiveLevel |-> 6],
      silence |-> [enabled |-> FALSE, autoStopMs |-> 1000, minSpeechMs |-> 500,
                   minLevel |-> 6]]}

SessionInit ==
    /\ OutsideMain
    /\ unit = NoCall
    /\ call = NoAdapterCall
    /\ hook \in {MountedHook(o) : o \in SessionOptions}

SessionNext ==
    \/ Start
    \/ MicGranted
    \/ MicDenied
    \/ Frame
    \/ FinalizeTimer
    \/ StopAndGetText
    \/ Cancel
    \/ Result
    \/ End
    \/ Unmount
    \/ Advance

SessionSpec == SessionInit /\ [][SessionNext]_vars

\* ---------------------------------------------------------------------------
\* Properties of useVoiceDraft
\* ---------------------------------------------------------------------------
Mounted == hook.mounted

\* the conditions under which a recording may be ended by the hook itself
AutoStopAllowed(facts) ==
    /\ facts.enabled
    /\ facts.activated
    /\ facts.firstSpeechAt # -1
    /\ facts.at - facts.firstSpeechAt >= hook.options.silence.minSpeechMs
    /\ facts.lastActiveAt # -1
       => facts.at - facts.lastActiveAt >= hook.options.silence.autoStopMs

\* C28: onAutoStop is invoked, and the tick loop starts to finalize the
\* session, only when silence.enabled is true, the noise gate has activated in
\* the session, minSpeechMs have passed since the first speech sample and
\* autoStopMs since the last active sample; with silence.enabled false
\* onAutoStop is never invoked.
C28_AutoStopOnlyWhenAsked ==
    Mounted =>
        /\ \A k \in 1..Len(hook.onAutoStops) :
               AutoStopAllowed(hook.onAutoStops[k].facts)
        /\ \A timer \in hook.timers : timer.auto => AutoStopAllowed(timer.facts)
        /\ ~hook.options.silence.enabled
           => hook.onAutoStops = <<>> /\ ~hook.autoStopping

\* onAutoStop has been invoked after a silence, with the text drafted
C28_Witness ==
    /\ Mounted
    /\ Len(hook.onAutoStops) = 1
    /\ hook.onAutoStops[1].text = <<"a">>
    /\ ~hook.listening

\* Animation frames keep coming while a loop is scheduled, timers that are due
\* run, and time passes; the user and the recognizer are free to do nothing.
HookFairSpec ==
    /\ HookSpec
    /\ WF_vars(Frame)
    /\ WF_vars(FinalizeTimer)
    /\ WF_vars(Advance)

\* a session with the microphone open in which speech was detected, lasted
\* minSpeechMs and was followed by autoStopMs without an active sample, the
\* sample of this step included, early enough for the finalize delay to pass
SilenceAfterSpeech ==
    /\ Mounted
    /\ hook.options.silence.enabled
    /\ hook.listening /\ hook.analyser /\ hook.loops # {}
    /\ \A loop \in hook.loops : loop.id \in hook.ticked
    /\ hook.activated
    /\ hook.now - hook.firstSpeechAt >= hook.options.silence.minSpeechMs
    /\ hook.lastActiveAt # -1
    /\ hook.now - hook.lastActiveAt >= hook.options.silence.autoStopMs
    /\ hook.now + hook.options.finalizeDelayMs <= 500 * MaxTicks
    /\ Len(hook.onAutoStops) < MaxAutoStops

\* the session is over: stopped, cancelled or started again
SessionOver == Mounted /\ (~hook.listening \/ ~hook.activated)

\* C29: with silence.enabled, once speech has been detected, has lasted
\* minSpeechMs and no active sample has been seen for autoStopMs, the session
\* is eventually stopped.
C29_SilenceStopsTheSession == SilenceAfterSpeech ~> SessionOver

\* every tick loop of the session was made by a start called while listening
StartedWhileListening == \A loop \in hook.loops : loop.listening

\* the same for the sessions started by a start called while listening
SilenceStopsARestartedSession ==
    (SilenceAfterSpeech /\ StartedWhileListening) ~> SessionOver

StartLeavesTheHookIdle ==
    (~hook.options.canTranscribe /\ hook'.starts = hook.starts + 1)
    => /\ hook'.onErrors = hook.onErrors + 1
       /\ ~hook.listening /\ ~hook'.listening
       /\ hook'.draftText = hook.draftText
       /\ hook'.waveform = hook.waveform
       /\ hook'.elapsed = hook.elapsed
       /\ hook'.micRequests = hook.micRequests
       /\ hook'.pendingMic = hook.pendingMic
       /\ hook'.rec = "none" /\ hook'.loops = {}

\* C30: when speech recognition is not available, a call of start reports one
\* error through onError, leaves listening false and the draft text, the
\* waveform and elapsed as they were, and asks for no microphone.
C30_StartWithoutRecognition == [][StartLeavesTheHookIdle]_vars

\* start was called twice without speech recognition
C30_Witness ==
    /\ Mounted
    /\ ~hook.options.canTranscribe
    /\ hook.starts = 2 /\ hook.onErrors = 2
    /\ ~hook.listening /\ hook.micRequests = 0

\* the recognizers that listen: started or started again, not stopped
Running(h) == {r \in h.recs : r.state = "running"}

\* the recognizers that have not ended
Live(h) == {r \in h.recs : r.state \in {"running", "stopping"}}

\* the stop whose delay ends in this step, if the step is the end of one
Resolves(timer) ==
    /\ timer \in hook.timers
    /\ timer.due <= hook.now
    /\ ~timer.auto
    /\ hook' = finalizeAfterDelay(hook, timer)

\* what the stop returns is the text the recognizer delivered up to this
\* moment, nothing of its session was cleared before, and the hook is idle
ResolvesWithTheText(timer) ==
    /\ timer.lost = <<>>
    /\ hook'.draftText = hook.finalText \o hook.interimText
    /\ ~hook'.listening
    /\ hook'.recRef = 0 /\ hook.recRef \notin {r.id : r \in Live(hook')}
    /\ hook'.stream = 0 /\ hook.stream \notin hook'.live

\* C31: stopAndGetText called while listening and not stopping stops the
\* recognizer, waits finalizeDelayMs and resolves with the final text of the
\* session followed by the latest interim text, results of the delay included;
\* then listening is false, draftText is the text returned, and the recognizer
\* and the microphone stream have been released.
C31_StopResolvesWithTheText ==
    [][\A timer \in hook.timers : Resolves(timer) => ResolvesWithTheText(timer)]_vars

\* the same for a stop during whose delay start is not called
StopWithoutRestart ==
    [][\A timer \in hook.timers :
           (Resolves(timer) /\ timer.lost = <<>> /\ hook.stopping)
           => ResolvesWithTheText(timer)]_vars

\* a stop has resolved with a final and an interim result, the interim one
\* delivered during the delay
StopResolvedWithText ==
    /\ Mounted /\ hook.starts = 1 /\ ~hook.cancelled /\ ~hook.unmounted
    /\ ~hook.listening /\ hook.timers = {} /\ hook.draftText = <<"a", "b">>
    /\ hook.recs = {} /\ hook.live = {}

CancelStays ==
    /\ hook'.cancelled => ~hook'.listening /\ hook'.draftText = <<>>
    /\ (hook.cancelled /\ hook'.cancelled)
       => /\ hook'.live \subseteq hook.live
          /\ hook'.analyser => hook.analyser
          /\ Running(hook') \subseteq Running(hook)

\* C32: after cancel no later event starts audio capture or starts or restarts
\* speech recognition until start is called again, neither the resolution of
\* an earlier getUserMedia request nor the onend of the aborted recognizer;
\* listening stays false and the draft text stays empty.
C32_CancelIsFinal == [][CancelStays]_vars

\* C33: in every reachable state a live microphone stream or a running
\* recognizer implies that listening is true.
C33_CaptureImpliesListening ==
    Mounted => (hook.live # {} \/ Running(hook) # {} => hook.listening)

\* C34: at most one microphone stream and at most one recognizer are live at
\* any time, and no stream is live that the hook holds no reference to, so
\* that a later stop, cancel, restart or unmount stops every stream.
C34_OneStreamOneRecognizer ==
    Mounted =>
        /\ Cardinality(hook.live) <= 1
        /\ Cardinality(Live(hook)) <= 1
        /\ hook.live \subseteq {hook.stream}

\* C35: stopAndGetText called while the hook is not listening, or while an
\* earlier stop is inside its finalize delay, changes nothing.
C35_StopAgainChangesNothing ==
    (Mounted /\ ~hook.unmounted /\ (~hook.listening \/ hook.timers # {}))
    => finalizeTranscript(hook, Render(hook), FALSE, Facts(hook)) = hook

\* the same for a stop called while the hook is not listening or is stopping
StopWhileStoppingChangesNothing ==
    (Mounted /\ ~hook.unmounted /\ (~hook.listening \/ hook.stopping))
    => finalizeTranscript(hook, Render(hook), FALSE, Facts(hook)) = hook

\* the samples that are kept of a waveform after one more sample
MostRecent(kept, sample, maxHistory) ==
    LET all == Append(kept, sample)
    IN  IF Len(all) <= maxHistory THEN all
        ELSE SubSeq(all, Len(all) - maxHistory + 1, Len(all))

\* a step that takes a sample keeps the most recent maxHistory samples
KeepsTheMostRecent ==
    hook'.lastSample # hook.lastSample /\ hook'.waveformRef # <<>>
    => hook'.waveformRef =
           MostRecent(hook.waveformRef,
                      hook'.waveformRef[Len(hook'.waveformRef)],
                      hook.options.maxHistory)

\* activation ends only where the session is reset: by start, by cancel or at
\* the end of a stop
ActivationStays ==
    hook.activated /\ ~hook'.activated
    => /\ hook'.waveform = <<>>
       /\ hook'.starts # hook.starts \/ ~hook'.listening

StartAndCancelEmptyTheWaveform ==
    hook'.micRequests # hook.micRequests \/ hook' = cancel(hook)
    => hook'.waveform = <<>> /\ hook'.waveformRef = <<>>

\* C36: in every reachable state the waveform holds at most maxHistory
\* samples, for every configured maxHistory, and every sample recorded in a
\* session before the noise gate first activates is 0.
C36_WaveformIsBounded ==
    Mounted =>
        /\ Len(hook.waveform) <= hook.options.maxHistory
        /\ Len(hook.waveformRef) <= hook.options.maxHistory
        /\ ~hook.activated
           => /\ \A k \in 1..Len(hook.waveform) : hook.waveform[k] = 0
              /\ \A k \in 1..Len(hook.waveformRef) : hook.waveformRef[k] = 0

\* the steps of C36: the samples kept are the most recent ones, activation
\* never reverts within a session, start and cancel empty the waveform
WaveformSteps ==
    [][KeepsTheMostRecent /\ ActivationStays /\ StartAndCancelEmptyTheWaveform]_vars

-----------------------------------------------------------------------------
(* Properties of the rows of the summary *)

\* some provider of the run has a successful sample
SomeSuccess == \E k \in 1..Len(summary) : summary[k].okCount > 0

\* the latency score that a mean latency earns against the best one
Proportional(own) ==
    clamp(RMul(RDiv(BestMeanLatency, own), Num(100)), Num(0), Num(100))

\* C38 as stated: in a run with a successful sample the provider with the lowest
\* mean latency has latency score 100, and every other provider with a defined
\* mean latency has a defined latency score, best / own * 100.
C38_BestLatencyScores100 ==
    SomeSuccess =>
        \A k \in 1..Len(summary) :
            LET row == summary[k]
                own == row.avgLatencyMs
            IN  IsFinite(own) =>
                    IF own = BestMeanLatency
                    THEN row.latencyScore = Num(100)
                    ELSE /\ IsFinite(row.latencyScore)
                         /\ row.latencyScore = Proportional(own)

\* C38: in a run with a successful sample the provider with the lowest mean
\* latency has latency score 100 when that latency is above zero and no
\* latency score when it is zero; every other provider with a defined mean
\* latency has a defined latency score, best / own * 100 (0 when the best
\* is zero).
C38_BestPositiveLatencyScores100 ==
    SomeSuccess =>
        \A k \in 1..Len(summary) :
            LET row == summary[k]
                own == row.avgLatencyMs
            IN  IsFinite(own) =>
                    IF own = Num(0) THEN ~IsFinite(row.latencyScore)
                    ELSE IF own = BestMeanLatency
                    THEN row.latencyScore = Num(100)
                    ELSE /\ IsFinite(row.latencyScore)
                         /\ row.latencyScore = Proportional(own)

\* the fastest provider answers within the clock's resolution: it has no
\* latency score and a provider with a mean latency of 5 ms scores 0
C38_Witness ==
    /\ pc = "done"
    /\ \E i, j \in 1..Len(summary) :
        /\ summary[i].okCount > 0
        /\ summary[i].avgLatencyMs = Num(0) /\ ~IsFinite(summary[i].latencyScore)
        /\ summary[j].avgLatencyMs = Num(5) /\ summary[j].latencyScore = Num(0)

\* C37: every row of the summary has okCount + errorCount = totalSamples, the
\* number of samples the run executed, each provider being charged with its own
\* results only, and successRatePct = okCount / totalSamples * 100.
C37_RowCountsItsOwnResults ==
    \A k \in 1..Len(summary) :
        LET row == summary[k]
        IN  /\ row.okCount + row.errorCount = row.totalSamples
            /\ row.totalSamples = Len(samples)
            /\ row.successRatePct = Rat(row.okCount * 100, row.totalSamples)

\* a run of two samples whose summary has a row of four
C37_DoubleCount ==
    /\ pc = "done" /\ Len(samples) = 2
    /\ \E k \in 1..Len(summary) : summary[k].totalSamples = 4

====
